---- MODULE Spec2Model ----
(***************************************************************************)
(* Model of the OLC flight download pipeline: the CLI commands `download`  *)
(* and `map` (cli.py), the year-by-year flight lister                       *)
(* (scraper_scrapy.py), DownloadManager.download_flights / _download_file   *)
(* (downloader.py), the metadata store (metadata.py) and the session        *)
(* authenticator (auth.py); SpecState models the processing-state ledger   *)
(* (scripts/state_manager.py) and the download step of the daily update    *)
(* (scripts/daily_update.py); SpecMeta models the metadata document of one *)
(* airport and year under add_flight, validate_and_fix_metadata and the    *)
(* update-metadata command; SpecAuth models the OLCAuthenticator object    *)
(* under arbitrary call orders, SpecRun the download command over the      *)
(* years of an incremental lister, and SpecSpider one run of the airport   *)
(* spider or of the flightbook spider (spiders/).                          *)
(***************************************************************************)
EXTENDS Integers, Sequences, FiniteSets, TLC

(***************************************************************************)
(* Bounds and program constants                                            *)
(***************************************************************************)

\* largest value of the --retries option explored for the download command
MaxRetriesBound == 3

\* cli.py: --retries default, and the fixed max_retries of the map command
DefaultRetries == 3

\* most requests.Session objects one authenticator makes in a run
MaxSessions == 3

\* scraper_scrapy.py 72: the most recent year the lister offers
FirstYear == 2026

\* number of years the lister offers (the program offers 2026 down to 2007)
NumYears == 2

\* most flights one year's listing yields
MaxFound == 1

\* most rows in one listing response, and most listing requests of a spider
MaxRows == 1
MaxBatches == 2

\* the total the site reports for the year in every response of one crawl
PagingTotal == 3

\* airport_spider.py 270: the largest limit a listing request asks for
BatchLimit == 50

(***************************************************************************)
(* Text: a line is a sequence of one-character strings                     *)
(***************************************************************************)

StartsWith(s, p) == Len(s) >= Len(p) /\ SubSeq(s, 1, Len(p)) = p

RECURSIVE LStrip(_)
LStrip(s) == IF s # <<>> /\ Head(s) = " " THEN LStrip(Tail(s)) ELSE s

RECURSIVE RStrip(_)
RStrip(s) ==
    IF s # <<>> /\ s[Len(s)] = " " THEN RStrip(SubSeq(s, 1, Len(s) - 1)) ELSE s

\* str.strip() on the first line read from a file
Strip(s) == RStrip(LStrip(s))

DoctypePrefix == <<"<", "!", "D", "O", "C", "T", "Y", "P", "E">>
HtmlPrefix    == <<"<", "h", "t", "m", "l">>

LineIgcA    == <<"A", "F", "L", "A">>
LineIgcH    == <<"H", "F", "D", "T">>
LineDoctype == DoctypePrefix \o <<" ", "h", "t", "m", "l", ">">>
LineHtml    == HtmlPrefix \o <<">">>
LineJunk    == <<"x", "A">>
LineEmpty   == <<>>

(***************************************************************************)
(* Files on disk: a destination file is absent or has a first line         *)
(***************************************************************************)

NoFile == [exists |-> FALSE, line |-> <<>>]
File(l) == [exists |-> TRUE, line |-> l]

\* mutant: every file that is no track log is taken for an error page
IsHtmlErrorPage_AnyNonIgc(line) ==
    ~(StartsWith(Strip(line), <<"A">>) \/ StartsWith(Strip(line), <<"H">>))

\* mutant: only the doctype is recognised, not the html tag
IsHtmlErrorPage_DoctypeOnly(line) == StartsWith(Strip(line), DoctypePrefix)

\* downloader.py 107-109: the HTML error page test of download_flights
IsHtmlErrorPage(line) ==
    StartsWith(Strip(line), DoctypePrefix) \/ StartsWith(Strip(line), HtmlPrefix)

\* mutant: validation rejects HTML only and misses the A/H record test
ValidIgc_HtmlOnly(line) ==
    ~(StartsWith(Strip(line), DoctypePrefix) \/ StartsWith(Strip(line), HtmlPrefix))

\* downloader.py 324-343: _validate_igc_file raises DownloadError unless TRUE
ValidIgc(line) ==
    /\ ~(StartsWith(Strip(line), DoctypePrefix) \/ StartsWith(Strip(line), HtmlPrefix))
    /\ (StartsWith(Strip(line), <<"A">>) \/ StartsWith(Strip(line), <<"H">>))

\* mutant: the force flag is read the wrong way round
SkipsExisting_Inverted(exists, force) == exists /\ force

\* downloader.py 116: the skip test of download_flights
SkipsExisting(exists, force) == exists /\ ~force

(***************************************************************************)
(* The flights the site lists, newest year first                           *)
(***************************************************************************)

Years == <<"2025", "2024">>

YearSet == {Years[i] : i \in 1..Len(Years)}

Flights == {"f1", "f2", "f3"}

\* what the site lists: two flights in the newest year, and one or none in
\* the year before
Listings ==
    { [y \in YearSet |-> IF y = "2025" THEN <<"f1", "f2">> ELSE older]
        : older \in {<<"f3">>, <<>>} }

Listed(l) == UNION {{l[y][i] : i \in 1..Len(l[y])} : y \in YearSet}

\* every listed flight carries a dataset id (airport_spider.py 494)
Dsid(f) == f

\* contents a destination file may have before the first run: absent, a
\* track log, an arbitrary text, or an HTML error page saved by an earlier run
InitFiles(f) ==
    {NoFile, File(LineIgcH), File(LineJunk),
     File(IF f = "f2" THEN LineHtml ELSE LineDoctype)}

(***************************************************************************)
(* HTTP responses to a download request                                    *)
(***************************************************************************)

\* exc: "timeout" (requests.Timeout), "conn" (another RequestException),
\* "none" (a response arrived); html: content-type contains text/html;
\* marker: the body contains the download-limitation phrase;
\* body: first line of the payload
Responses ==
    { [exc |-> e, status |-> 0, html |-> FALSE, marker |-> FALSE, body |-> <<>>]
        : e \in {"timeout", "conn"} }
    \cup
    { [exc |-> "none", status |-> s, html |-> TRUE, marker |-> m, body |-> LineDoctype]
        : s \in {200, 404, 500}, m \in BOOLEAN }
    \cup
    { [exc |-> "none", status |-> 200, html |-> FALSE, marker |-> FALSE, body |-> b]
        : b \in {LineIgcA, LineDoctype, LineJunk, LineEmpty} }

NoResponse == [exc |-> "unset", status |-> 0, html |-> FALSE, marker |-> FALSE, body |-> <<>>]

\* requests.Response.raise_for_status (downloader.py 214)
RaisesHttpError(r) == r.exc = "none" /\ r.status >= 400 /\ r.status < 600

\* mutant: every HTTP error is retried
IsServerError_AnyError(status) == status >= 400

\* downloader.py 285: server errors are retried, client errors are not
IsServerError(status) == status >= 500

\* downloader.py 217-218
IsHtmlResponse(r) == r.exc = "none" /\ ~RaisesHttpError(r) /\ r.html

\* mutant: the marker phrase is never found
IsRateLimit_Missed(r) == FALSE

\* downloader.py 223
IsRateLimit(r) == IsHtmlResponse(r) /\ r.marker

\* downloader.py 233: refresh only with an authenticator and a retry left
ShouldRefresh(auth, att, retries) == auth /\ att < retries - 1

\* mutant: one attempt too many
HasAttempt_OffByOne(att, retries) == att <= retries

\* downloader.py 189: for attempt in range(self.max_retries)
HasAttempt(att, retries) == att < retries

ZeroStats == [total |-> 0, downloaded |-> 0, skipped |-> 0, failed |-> 0]

AddStats(a, b) == [total      |-> a.total + b.total,
                   downloaded |-> a.downloaded + b.downloaded,
                   skipped    |-> a.skipped + b.skipped,
                   failed     |-> a.failed + b.failed]

NoReturn == [returned |-> FALSE, st |-> ZeroStats]

(***************************************************************************)
(* scripts/state_manager.py: the processing-state ledger                   *)
(***************************************************************************)

Digits == {"0", "1", "2", "3", "4", "5", "6", "7", "8", "9"}

\* flight file names, as sequences of characters
IgcA == <<"2", "0", "2", "5", "_", "A">>
IgcB == <<"B">>

StateFiles == {IgcA, IgcB}

Dates == {"2024-07-01", "2024-07-02"}

\* Python None as a date
NoDate == "None"

\* daily_update.py 163: re.match(r'(\d{4})_', filename)
MatchesYearPrefix(filename) ==
    /\ Len(filename) >= 5
    /\ \A i \in 1..4 : filename[i] \in Digits
    /\ filename[5] = "_"

\* daily_update.py 150-173: both branches return None
ExtractDateFromFilename(filename) ==
    IF MatchesYearPrefix(filename) THEN NoDate ELSE NoDate

\* elements of a list
Elems(seq) == {seq[i] : i \in 1..Len(seq)}

\* a date without an entry in processed_dates, and the entry created for it
NoEntry  == [present |-> FALSE, flights |-> <<>>, satellite_tiles_generated |-> FALSE]
NewEntry == [present |-> TRUE, flights |-> <<>>, satellite_tiles_generated |-> FALSE]

\* state_manager.py 59-70
CreateEmptyState ==
    [processed_flights |-> [f \in StateFiles |-> NoDate],
     processed_dates   |-> [d \in Dates |-> NoEntry]]

\* state_manager.py 95-105
IsFlightProcessed(s, flight_filename) ==
    s.processed_flights[flight_filename] # NoDate

\* state_manager.py 107-118
IsDateProcessed(s, date_str) ==
    IF s.processed_dates[date_str].present
    THEN s.processed_dates[date_str].satellite_tiles_generated
    ELSE FALSE

\* mutant: the filter keeps the processed flights
GetNewFlights_KeepsProcessed(s, all_flights) ==
    SelectSeq(all_flights, LAMBDA f : IsFlightProcessed(s, f))

\* state_manager.py 120-130
GetNewFlights(s, all_flights) ==
    SelectSeq(all_flights, LAMBDA f : ~IsFlightProcessed(s, f))

\* state_manager.py 165-170 and 189-194: the date's entry, created if absent
EntryOf(s, date_str) ==
    IF s.processed_dates[date_str].present
    THEN s.processed_dates[date_str]
    ELSE NewEntry

\* mutant: the flight is recorded but not added to the date's flight list
MarkFlightProcessed_Unlisted(s, flight_filename, date_str) ==
    [s EXCEPT !.processed_flights[flight_filename] = date_str,
              !.processed_dates[date_str] = EntryOf(s, date_str)]

\* mutant: recording a flight also sets the date's tile flag
MarkFlightProcessed_MarksDate(s, flight_filename, date_str) ==
    [processed_flights |->
        [s.processed_flights EXCEPT ![flight_filename] = date_str],
     processed_dates |->
        [s.processed_dates EXCEPT ![date_str] =
            [present |-> TRUE,
             flights |-> IF flight_filename \in Elems(EntryOf(s, date_str).flights)
                         THEN EntryOf(s, date_str).flights
                         ELSE Append(EntryOf(s, date_str).flights, flight_filename),
             satellite_tiles_generated |-> TRUE]]]

\* state_manager.py 144-175
MarkFlightProcessed(s, flight_filename, date_str) ==
    [processed_flights |->
        [s.processed_flights EXCEPT ![flight_filename] = date_str],
     processed_dates |->
        [s.processed_dates EXCEPT ![date_str] =
            IF flight_filename \in Elems(EntryOf(s, date_str).flights)
            THEN EntryOf(s, date_str)
            ELSE [EntryOf(s, date_str) EXCEPT !.flights = Append(@, flight_filename)]]]

\* state_manager.py 177-199
MarkDateProcessed(s, date_str, satellite_tiles_generated) ==
    [s EXCEPT !.processed_dates[date_str] =
        [EntryOf(s, date_str) EXCEPT
            !.satellite_tiles_generated = satellite_tiles_generated]]

\* the state file: absent, a complete JSON document, or the truncated or
\* half-written text that open(..., 'w') and an interrupted json.dump leave
NoStateFile      == [kind |-> "absent", state |-> CreateEmptyState]
PartialStateFile == [kind |-> "partial", state |-> CreateEmptyState]
StateDoc(s)      == [kind |-> "doc", state |-> s]

\* state_manager.py 38-57: no file, or a file json.load rejects, is a fresh
\* state
LoadState(file) ==
    IF file.kind = "doc" THEN file.state ELSE CreateEmptyState

\* how a save ends: "ok"; "no_write": mkdir or open raised, the file is
\* untouched; "partial": json.dump raised after open had truncated the file
SaveOutcomes == {"ok", "no_write", "partial"}

\* state_manager.py 80-86: what save leaves in the state file
SaveFile(file, s, outcome) ==
    CASE outcome = "ok"       -> StateDoc(s)
      [] outcome = "no_write" -> file
      [] outcome = "partial"  -> PartialStateFile

\* mutant: save reports success whatever happened
SaveResult_AlwaysTrue(outcome) == TRUE

\* state_manager.py 89 and 91-93: the value save returns
SaveResult(outcome) == outcome = "ok"

\* daily_update.py 133-136: mark every new flight whose date is known
RECURSIVE MarkNewFlights(_, _)
MarkNewFlights(s, names) ==
    IF names = <<>> THEN s
    ELSE MarkNewFlights(
            IF ExtractDateFromFilename(Head(names)) # NoDate
            THEN MarkFlightProcessed(s, Head(names),
                                     ExtractDateFromFilename(Head(names)))
            ELSE s,
            Tail(names))

\* daily_update.py 119-126: the flights a run treats as new
NewIgcFiles(s, names, forced) ==
    IF forced THEN names ELSE GetNewFlights(s, names)

\* lists of file names handed to get_new_flights
Candidates == {<<>>, <<IgcA, IgcB>>, <<IgcB, IgcA, IgcB>>}

\* daily_update.py 116: the files rglob finds under the airport's directory
FoundFiles == {<<IgcB>>, <<IgcA, IgcB>>}

\* a ledger written by an earlier run (initialize_state.py 100-121)
SeededState ==
    MarkDateProcessed(
        MarkFlightProcessed(CreateEmptyState, IgcA, "2024-07-01"),
        "2024-07-01", TRUE)

\* op: the call; names: the list passed or found; ok and out: what it
\* returned; io: how its save ended
NoRet == [op |-> "none", names |-> <<>>, ok |-> FALSE, out |-> <<>>, io |-> "none"]

(***************************************************************************)
(* metadata.py: the metadata document of one (airport, year)               *)
(***************************************************************************)

\* a FlightMetadata record: its dsid, its download_status, and distance
\* standing for the attributes copied from the listing; the record's
\* filename is the destination file of the flight with that dsid
Records ==
    [dsid : Flights, download_status : {"downloaded", "missing"}, distance : {0, 1}]

\* metadata.json: absent, or the list under its 'flights' key
NoDoc == [exists |-> FALSE, flights |-> <<>>]

\* the position of a dsid in a dict, 0 if it is no key
KeyIndex(m, dsid) ==
    IF \E i \in 1..Len(m) : m[i].dsid = dsid
    THEN CHOOSE i \in 1..Len(m) : m[i].dsid = dsid
    ELSE 0

\* mutant: the assignment replaces the whole dict
Upsert_DropsOthers(m, r) == <<r>>

\* metadata.py 114 and 175: metadata[flight.dsid] = flight on a dict, which
\* keeps the position of a key it already has and appends a new one
Upsert(m, r) ==
    IF KeyIndex(m, r.dsid) # 0
    THEN [m EXCEPT ![KeyIndex(m, r.dsid)] = r]
    ELSE Append(m, r)

\* metadata.py 111-114: the records of the list, keyed by dsid
RECURSIVE FromList(_, _)
FromList(m, flights) ==
    IF flights = <<>> THEN m
    ELSE FromList(Upsert(m, Head(flights)), Tail(flights))

\* metadata.py 93-121
LoadMetadata(doc) ==
    IF ~doc.exists THEN <<>> ELSE FromList(<<>>, doc.flights)

\* metadata.py 123-155
SaveMetadata(flights) == [exists |-> TRUE, flights |-> flights]

\* mutant: the save merges the loaded dict into what the file holds by then
SavedDoc_Merging(doc, m) == SaveMetadata(FromList(LoadMetadata(doc), m))

\* metadata.py 178 with 142-150: add_flight writes the dict it loaded, with
\* its record added, over whatever the file holds by then
SavedDoc(doc, m) == SaveMetadata(m)

\* metadata.py 157-178
AddFlightToDoc(doc, r) == SaveMetadata(Upsert(LoadMetadata(doc), r))

\* metadata.py 241-246: the file exists and its first line starts with A or H
FileIsValid(file) ==
    /\ file.exists
    /\ (StartsWith(Strip(file.line), <<"A">>) \/ StartsWith(Strip(file.line), <<"H">>))

\* mutant: an unreadable first line is taken for a track log
FixedStatus_ExistsIsEnough(file) ==
    IF file.exists THEN "downloaded" ELSE "missing"

\* metadata.py 246-268: the status validate_and_fix_metadata gives a record
FixedStatus(file) ==
    IF FileIsValid(file) THEN "downloaded" ELSE "missing"

\* metadata.py 248-250, 256, 265-267: does the record set the updated flag
SetsUpdated(r, file) ==
    IF file.exists
    THEN (IF FileIsValid(file) THEN r.download_status # "downloaded" ELSE TRUE)
    ELSE r.download_status # "missing"

\* metadata.py 209-275: the document left, and the counts returned
ValidateAndFix(doc, files) ==
    LET m     == LoadMetadata(doc)
        fixed == [i \in 1..Len(m) |->
                    [m[i] EXCEPT !.download_status = FixedStatus(files[m[i].dsid])]]
        valid == Cardinality({i \in 1..Len(m) : fixed[i].download_status = "downloaded"})
    IN IF m = <<>>
       THEN [doc |-> doc, valid |-> 0, missing |-> 0]
       ELSE [doc     |-> IF \E i \in 1..Len(m) : SetsUpdated(m[i], files[m[i].dsid])
                         THEN SaveMetadata(fixed)
                         ELSE doc,
             valid   |-> valid,
             missing |-> Len(m) - valid]

\* cli.py 1450-1464: update-metadata builds a record for every row of the
\* listing API
RowRecord(dsid) == [dsid |-> dsid, download_status |-> "downloaded", distance |-> 1]

\* cli.py 1481-1486: the year's document is rewritten from the rows alone
UpdateMetadata(doc, rows) ==
    IF rows # <<>>
    THEN SaveMetadata([i \in 1..Len(rows) |-> RowRecord(rows[i])])
    ELSE doc

\* the rows the listing API returns for the year
ApiRows == {<<>>, <<"f1">>, <<"f2", "f1">>, <<"f1", "f1">>}

\* destination files while the metadata store is exercised
StoreFiles(f) ==
    CASE f = "f1" -> {NoFile, File(LineIgcH), File(LineJunk)}
      [] f = "f2" -> {NoFile, File(LineIgcA), File(LineDoctype)}
      [] OTHER    -> {NoFile}

NoRec == [dsid |-> "", download_status |-> "", distance |-> 0]

NoStoreRet == [op |-> "none", rec |-> NoRec, valid |-> 0, missing |-> 0]

(***************************************************************************)
(* auth.py: the OLCAuthenticator object                                    *)
(***************************************************************************)

\* a credential field: None, the empty string or a non-empty string
NoCred == "None"
Creds == {"", "u"}

\* auth.py 18-25: __init__
NewAuthenticator ==
    [session |-> 1, authenticated |-> FALSE,
     username |-> NoCred, password |-> NoCred]

\* Python truth value of a credential field: None and "" are false
Falsy(c) == c = NoCred \/ c = ""

\* auth.py 113: not self._username or not self._password
NoCredentials(a) == Falsy(a.username) \/ Falsy(a.password)

\* auth.py 27-91: login stores the credentials first; ok: both requests
\* succeeded and the answer carries the logged-in marker
AuthLogin(a, u, p, ok) ==
    [auth   |-> [a EXCEPT !.username = u, !.password = p,
                          !.authenticated = IF ok THEN TRUE ELSE @],
     raised |-> ~ok]

\* mutant: the session is handed out whatever the authenticated flag says
AuthGetSession_NoCheck(a) == [raised |-> FALSE, session |-> a.session]

\* auth.py 97-101
AuthGetSession(a) ==
    IF ~a.authenticated THEN [raised |-> TRUE, session |-> 0]
                        ELSE [raised |-> FALSE, session |-> a.session]

\* mutant: the stored credentials are not looked at
AuthRefreshSession_NoGuard(a, ok) ==
    AuthLogin([a EXCEPT !.session = @ + 1, !.authenticated = FALSE],
              a.username, a.password, ok)

\* auth.py 103-126: a new Session replaces the old one, then login again
AuthRefreshSession(a, ok) ==
    IF NoCredentials(a)
    THEN [auth |-> a, raised |-> TRUE]
    ELSE AuthLogin([a EXCEPT !.session = @ + 1, !.authenticated = FALSE],
                   a.username, a.password, ok)

\* auth.py 93-95
IsAuthenticated(a) == a.authenticated

\* the last OLCAuthenticator call: what was called, whether it raised
\* AuthenticationError, the session get_session returned and the value
\* is_authenticated returned
NoAuthRet == [op |-> "none", raised |-> FALSE, session |-> 0, value |-> FALSE]

(***************************************************************************)
(* scraper_scrapy.py and cli.py: the download command over the years       *)
(***************************************************************************)

\* the --year option left out
NoYear == 0

\* scraper_scrapy.py 70-74: range(2026, 2006, -1)
GetAvailableYears == [i \in 1..NumYears |-> FirstYear - (i - 1)]

\* scraper_scrapy.py 229-232 and cli.py 213-228: the years a run asks for
RequestedYears(year) == IF year # NoYear THEN <<year>> ELSE GetAvailableYears

\* cli.py 213-215: the personal scope with --year calls get_flights_for_year
\* itself; every other run iterates an incremental lister
UsesLister(all_pilots, year) == all_pilots \/ year = NoYear

\* what scraping one year comes to: an exception out of the spider run or of
\* the pilot-id lookup, or the number of flights found
ScrapeError == "error"
PilotError  == "pilot_error"
ScrapeOutcomes ==
    {[exc |-> e, found |-> 0] : e \in {ScrapeError, PilotError}}
    \cup {[exc |-> "none", found |-> n] : n \in 0..MaxFound}

\* the scrape of the year raised
Failed(outcome) == outcome.exc # "none"

\* scraper_scrapy.py 184-186 and 277-280: the incremental listers catch the
\* failure of a year and go on with the next one
ListerCatches(all_pilots, outcome) == Failed(outcome)

\* mutant: all years are scraped before anything is handed to the caller
AfterYield_Eager(found) == "list"

\* scraper_scrapy.py 174-178 and 267-271: a year with flights is yielded,
\* which suspends the lister until the caller asks for the next year
AfterYield(found) == IF found > 0 THEN "download" ELSE "list"

\* mutant: a failed login does not stop the command
AfterLogin_Continues(ok) == "list"

\* cli.py 136-140 and 282-284: AuthenticationError ends the command
AfterLogin(ok) == IF ok THEN "list" ELSE "done"

\* what download_flights does with the found flights of a year when it is
\* not a dry run: files skipped as existing, files failed, a session refresh
\* after a soft failure, and whether the rate-limit page ended the call
DownloadOutcomes(found) ==
    {o \in [skipped : 0..found, failed : 0..found,
            refresh : {"none", "ok", "failed"}, rate_limit : BOOLEAN] :
        /\ o.skipped + o.failed <= found
        /\ (o.skipped = found) => (o.refresh = "none" /\ ~o.rate_limit)}

\* downloader.py 55-180: the statistics download_flights returns
YearStats(found, dry, o) ==
    IF dry THEN [ZeroStats EXCEPT !.total = found]
    ELSE [total |-> found, downloaded |-> found - o.skipped - o.failed,
          skipped |-> o.skipped, failed |-> o.failed]

\* an entry of the run's request log: sess is the session the request was
\* sent on (or whose cookies the spider was given), cur the authenticator's
\* session at that time
\* found: the flights a listing came to (0 when it failed)
Event(ev, year, sess, cur, found) ==
    [ev |-> ev, year |-> year, sess |-> sess, cur |-> cur, found |-> found]

\* scraper_scrapy.py 174-182 and 267-275: time.sleep(10) stands in the try
\* block after the scrape and the yield, so the lister waits before its next
\* year unless the scrape raised
Sleeps(outcome) == ~Failed(outcome)

\* the outcome of a download_flights call that sends no request
NoRequests == [skipped |-> 0, failed |-> 0, refresh |-> "none",
               rate_limit |-> FALSE]

(***************************************************************************)
(* spiders/airport_spider.py and spiders/olc_spider.py                     *)
(***************************************************************************)

\* points = None; scores are counted in tenths of a point
NoPoints == -1

\* the 'points' field of a listing row as the site sends it
PointTexts == {"None", "499.9", "500.0"}

\* airport_spider.py 194-200: float(points_value), None when the field is
\* missing or is no number
Float(text) ==
    CASE text = "499.9" -> 4999
      [] text = "500.0" -> 5000
      [] OTHER          -> NoPoints

\* the --min-points option: left out, or 500
MinOptions == {NoPoints, 5000}

\* airport_spider.py 203-206
PassesMinPoints(min_points, points) ==
    min_points = NoPoints \/ (points # NoPoints /\ points >= min_points)

\* a listing row: its 'id' ("" when the row has none) and its points
Rows == [id : {"", "f1", "f2"}, points : PointTexts]

\* the 'result' list of one listing response
Batches == UNION {[1..n -> Rows] : n \in 0..MaxRows}

\* the 'count' of a listing response, NoCount when the key is missing
NoCount == -1
Counts == {NoCount, 3, 53}

\* airport_spider.py 161-175: a listing response is a JSON object with rows
\* and count, or something the callback gives up on (no JSON, no object; a
\* failed request comes to the same, airport_spider.py 152-154)
ListResponses ==
    {[kind |-> "json", rows |-> b, count |-> c] : b \in Batches, c \in Counts}
    \cup {[kind |-> "garbage", rows |-> <<>>, count |-> NoCount]}

\* airport_spider.py 175: data.get('count', len(rows))
Total(response) == IF response.count = NoCount THEN Len(response.rows) ELSE response.count

\* airport_spider.py 270: min(50, total - next_offset)
NextLimit(total, next_offset) ==
    IF total - next_offset < BatchLimit THEN total - next_offset ELSE BatchLimit

\* a request in the scheduler: a listing request or a detail-page request
ListReq(offset, limit) ==
    [kind |-> "list", offset |-> offset, limit |-> limit, dsid |-> "",
     points |-> NoPoints]
InfoReq(dsid, points) ==
    [kind |-> "info", offset |-> 0, limit |-> 0, dsid |-> dsid,
     points |-> points]

\* airport_spider.py 180-206: is the detail page of the row requested
FollowsRow(row, seen, min_points) ==
    /\ row.id # ""
    /\ row.id \notin seen
    /\ PassesMinPoints(min_points, Float(row.points))

\* airport_spider.py 483-493: the file of a flight is named after the year,
\* the pilot and the flightId of the download link, which the site assigns
\* apart from the dsId of the listing
FlightId(f) == IF f = "f1" THEN "f1" ELSE IF f = "f2" THEN "x2" ELSE "x3"
FileStem(f) == <<"2024", "Pilot", FlightId(f)>>

\* airport_spider.py 43-114: the dsids of the records of metadata.json whose
\* file is a valid track log, and the last part of the name of every valid
\* .igc file of the directory
LoadExistingMetadata(doc, files) ==
    LET m == IF doc.exists THEN doc.flights ELSE <<>>
    IN {m[i].dsid : i \in {j \in 1..Len(m) : FileIsValid(files[m[j].dsid])}}
       \cup {FileStem(f)[Len(FileStem(f))] :
                f \in {g \in Flights : /\ Len(FileStem(g)) >= 2
                                       /\ FileIsValid(files[g])}}

\* the download links of a page, in page order: "igc" is a track-log link,
\* "kml" one whose href holds kmlfile, "odd" one without a numeric flightId
DetailPages == {<<>>, <<"kml">>, <<"kml", "igc">>, <<"igc">>, <<"odd">>}

\* airport_spider.py 452-458, olc_spider.py 288-294: the first link that is
\* no KML link
IgcLink(page) ==
    IF \E i \in 1..Len(page) : page[i] # "kml"
    THEN page[CHOOSE i \in 1..Len(page) :
                 /\ page[i] # "kml"
                 /\ \A j \in 1..(i - 1) : page[j] = "kml"]
    ELSE "none"

\* airport_spider.py 462-464, olc_spider.py 102-104: flightId=(-?\d+) matches
HasFlightId(link) == link \in {"igc", "kml"}

\* olc_spider.py 96-98 and 187: the flightbook page with its download links
\* and the rows of its flightinfo links
FlightbookPages ==
    [direct : {<<>>, <<"igc">>, <<"kml">>}, info : Batches]

VARIABLES
    listing,      \* per year, the flights the lister yields
    command,      \* "download" or "map"
    force,        \* --force
    dry_run,      \* --dry-run (download only)
    max_retries,  \* DownloadManager.max_retries
    run,          \* 1: first run, 2: the same command run again
    pc,           \* position of the run
    yi,           \* index into Years of the year being processed
    fi,           \* index of the flight within the year's list
    attempt,      \* _download_file: loop variable attempt
    resp,         \* _download_file: the response being handled
    disk,         \* destination file of each flight
    meta,         \* metadata document: status recorded per dsid
    stats,        \* download_flights: stats of the current call
    total_stats,  \* cli: total_stats of the run
    ret1,         \* per year, what download_flights returned in the first run
    reqs,         \* download requests issued for the current flight
    authSession,  \* OLCAuthenticator.session
    authenticated,\* OLCAuthenticator.authenticated
    dlSession,    \* DownloadManager.session
    reqSession,   \* session the last download request was sent on
    refreshed,    \* outcome of the refresh made before this attempt, if any
    rejected,     \* files of the current flight deleted for failing validation
    purged,       \* the current flight's old file was deleted as an HTML page
    rateLimited,  \* a RateLimitError was raised in this run
    summary,      \* the run printed its statistics summary
    exit,         \* "running", "ok" (normal return) or "abort" (click.Abort)
    psState,      \* ProcessingState.state: processed_flights, processed_dates
    psFile,       \* the persisted {airport_code}_state.json
    psAlive,      \* a process holding a ProcessingState is running
    psRet,        \* the last ProcessingState / DailyUpdater call and its result
    mdDoc,        \* the persisted metadata.json of one (airport, year)
    mdRet,        \* the last MetadataStore call and its result
    oa,           \* an OLCAuthenticator: session, authenticated, credentials
    oaLoggedIn,   \* a login of this authenticator has succeeded
    oaRet,        \* the last OLCAuthenticator call and its result
    rnAllPilots,  \* download --all-pilots (public scope)
    rnYear,       \* download --year, or NoYear
    rnDry,        \* download --dry-run
    rnPc,         \* position of the command
    rnYi,         \* index of the year the lister works on
    rnPilot,      \* OLCScraperScrapy.pilot_id is set
    rnScraper,    \* OLCScraperScrapy.session
    rnDl,         \* DownloadManager.session
    rnFound,      \* number of flights the lister yielded for the year
    rnTotal,      \* total_stats of the command
    rnLog,        \* the requests of the run, in order
    rnSummary,    \* the statistics summary was printed
    rnExit,       \* "running", "ok" (normal return) or "abort" (click.Abort)
    spKind,       \* "airport" (public scope) or "flightbook" (personal scope)
    spMin,        \* the min_points of the query
    spSeen,       \* OLCAirportFlightsSpider.downloaded_dsids
    spPending,    \* requests yielded and not yet answered
    spList,       \* the listing requests sent, in order, with their answers
    spInfo,       \* the detail-page requests yielded
    spItems,      \* the flight descriptors yielded
    spPc,         \* "init", "crawl" or "closed"
    spBatch,      \* meta['batch'] of the latest listing request, modulo 2
    mwPc,         \* per run: where its add_flight call stands
    mwMem,        \* per run: the dict its add_flight call has loaded
    mwRec,        \* per run: the record its add_flight call adds
    swPc,         \* per run: where its ProcessingState instance stands
    swState,      \* per run: the state dict of its ProcessingState
    swName        \* per run: the file name it marks as processed

cfgVars  == <<listing, command, force, dry_run, max_retries>>
authVars == <<authSession, authenticated, dlSession>>
fileVars == <<attempt, resp, reqs, reqSession, refreshed, rejected, purged>>
endVars  == <<rateLimited, summary, exit>>
vars == <<listing, command, force, dry_run, max_retries, run, pc, yi, fi, attempt, resp,
          disk, meta, stats, total_stats, ret1, reqs, authSession,
          authenticated, dlSession, reqSession, refreshed, rejected,
          purged, rateLimited, summary, exit,
          psState, psFile, psAlive, psRet, mdDoc, mdRet,
          oa, oaLoggedIn, oaRet,
          rnAllPilots, rnYear, rnDry, rnPc, rnYi, rnPilot, rnScraper, rnDl,
          rnFound, rnTotal, rnLog, rnSummary, rnExit,
          spKind, spMin, spSeen, spPending, spList, spInfo, spItems, spPc,
          spBatch, mwPc, mwMem, mwRec, swPc, swState, swName>>

\* the variables of the processing-state ledger and of the metadata store
stateVars == <<psState, psFile, psAlive, psRet>>
storeVars == <<mdDoc, mdRet>>

\* the variables of the site-facing components modelled on their own
authObjVars == <<oa, oaLoggedIn, oaRet>>
runCfg == <<rnAllPilots, rnYear, rnDry>>
runVars == <<runCfg, rnPc, rnYi, rnPilot, rnScraper, rnDl, rnFound, rnTotal,
             rnLog, rnSummary, rnExit>>
spiderVars == <<spKind, spMin, spSeen, spPending, spList, spInfo, spItems,
                spPc, spBatch>>
writerVars == <<mwPc, mwMem, mwRec, swPc, swState, swName>>
siteVars == <<authObjVars, runVars, spiderVars, writerVars>>

\* an authenticator nobody has called yet
AuthIdle ==
    /\ oa = NewAuthenticator
    /\ oaLoggedIn = FALSE
    /\ oaRet = NoAuthRet

\* a download command that has not started
RunIdle ==
    /\ rnAllPilots = FALSE
    /\ rnYear = NoYear
    /\ rnDry = FALSE
    /\ rnPc = "start"
    /\ rnYi = 1
    /\ rnPilot = FALSE
    /\ rnScraper = 0
    /\ rnDl = 0
    /\ rnFound = 0
    /\ rnTotal = ZeroStats
    /\ rnLog = <<>>
    /\ rnSummary = FALSE
    /\ rnExit = "running"

\* a spider that has not been constructed
SpiderIdle ==
    /\ spKind = "airport"
    /\ spMin = NoPoints
    /\ spSeen = {}
    /\ spPending = {}
    /\ spList = <<>>
    /\ spInfo = {}
    /\ spItems = {}
    /\ spPc = "init"
    /\ spBatch = 1

\* the two runs that may work on one scope at the same time
Writers == {"run1", "run2"}

\* no run has called add_flight or made its ProcessingState
WritersIdle ==
    /\ mwPc = [w \in Writers |-> "idle"]
    /\ mwMem = [w \in Writers |-> <<>>]
    /\ mwRec = [w \in Writers |-> NoRec]
    /\ swPc = [w \in Writers |-> "idle"]
    /\ swState = [w \in Writers |-> CreateEmptyState]
    /\ swName = [w \in Writers |-> <<>>]

SiteIdle == AuthIdle /\ RunIdle /\ SpiderIdle /\ WritersIdle

CurYear    == Years[yi]
CurFlights == listing[CurYear]
CurFlight  == CurFlights[fi]

\* a requests.Session() that no component holds: identities are reused once
\* every reference to them is gone
FreshSession ==
    CHOOSE s \in 1..4 :
        /\ s \notin {authSession, dlSession, reqSession}
        /\ \A t \in 1..(s - 1) : t \in {authSession, dlSession, reqSession}

Init ==
    /\ listing \in Listings
    /\ command \in {"download", "map"}
    /\ force \in BOOLEAN
    /\ dry_run \in (IF command = "download" THEN BOOLEAN ELSE {FALSE})
    /\ max_retries \in (IF command = "download" THEN 1..MaxRetriesBound
                                               ELSE {DefaultRetries})
    /\ run = 1
    /\ pc = "idle"
    /\ yi = 1
    /\ fi = 1
    /\ attempt = 0
    /\ resp = NoResponse
    /\ disk \in [Flights -> UNION {InitFiles(f) : f \in Flights}]
    /\ \A f \in Flights : disk[f] \in InitFiles(f)
    /\ \A f \in Flights \ Listed(listing) : disk[f] = NoFile
    /\ meta = [f \in Flights |-> "none"]
    /\ stats = ZeroStats
    /\ total_stats = ZeroStats
    /\ ret1 = [y \in YearSet |-> NoReturn]
    /\ reqs = 0
    /\ authSession = 1
    /\ authenticated = FALSE
    /\ dlSession = 0
    /\ reqSession = 0
    /\ refreshed = "none"
    /\ rejected = 0
    /\ purged = FALSE
    /\ rateLimited = FALSE
    /\ summary = FALSE
    /\ exit = "running"
    /\ psState = CreateEmptyState
    /\ psFile = NoStateFile
    /\ psAlive = FALSE
    /\ psRet = NoRet
    /\ mdDoc = NoDoc
    /\ mdRet = NoStoreRet
    /\ SiteIdle

(***************************************************************************)
(* Helpers of the download loop                                            *)
(***************************************************************************)

\* mutant: the cleanup leaves the file where it is
Unlink_Keeps(d, f) == d

\* output_path.unlink() guarded by output_path.exists()
Unlink(d, f) == [d EXCEPT ![f] = NoFile]

\* mutant: the record is never stored
AddFlight_NotStored(m, f) == m

\* metadata.py 157-178: add_flight upserts the record keyed by dsid
AddFlight(m, f) == [m EXCEPT ![Dsid(f)] = "downloaded"]

\* mutant: the dry_run test is missing
AfterStats_NoDryRun(dry) == "flight"

\* downloader.py 66-70: a dry run returns the stats before the loop
AfterStats(dry) == IF dry THEN "returned" ELSE "flight"

\* leave _download_file for the next flight of the list
NextFlight ==
    /\ fi' = fi + 1
    /\ attempt' = 0
    /\ resp' = NoResponse
    /\ reqs' = 0
    /\ reqSession' = 0
    /\ refreshed' = "none"
    /\ rejected' = 0
    /\ purged' = FALSE
    /\ pc' = "flight"

\* continue the retry loop of _download_file
NextAttempt ==
    /\ attempt' = attempt + 1
    /\ resp' = NoResponse
    /\ pc' = "attempt"
    /\ UNCHANGED <<fi, stats, reqs, reqSession, purged>>

\* mutant: a failed file is not counted
CountFailed_Uncounted == stats' = stats

\* downloader.py 157-163: except Exception in download_flights
CountFailed == stats' = [stats EXCEPT !.failed = @ + 1]

(***************************************************************************)
(* cli.py: login and construction of the DownloadManager                   *)
(***************************************************************************)

\* cli.py 136-152 / 427-438 with auth.py 27-86: login succeeds
LoginOk ==
    /\ pc = "idle"
    /\ authenticated' = TRUE
    /\ dlSession' = authSession
    /\ pc' = "years"
    /\ UNCHANGED <<stateVars, storeVars, siteVars, cfgVars, run, yi, fi, fileVars, disk, meta, stats,
                   total_stats, ret1, authSession, endVars>>

\* auth.py 87-91 with cli.py 282-284: AuthenticationError ends the command
LoginFail ==
    /\ pc = "idle"
    /\ pc' = "done"
    /\ exit' = "abort"
    /\ UNCHANGED <<stateVars, storeVars, siteVars, cfgVars, run, yi, fi, fileVars, disk, meta, stats,
                   total_stats, ret1, authVars, rateLimited, summary>>

(***************************************************************************)
(* cli.py: the loop over the years the lister yields                       *)
(***************************************************************************)

\* cli.py 156-170 / 442-455 with downloader.py 55-70: the lister yields the
\* next year and download_flights is called on it
CallDownload ==
    /\ pc = "years"
    /\ yi <= Len(Years)
    /\ CurFlights # <<>>
    /\ stats' = [ZeroStats EXCEPT !.total = Len(CurFlights)]
    /\ fi' = 1
    /\ pc' = AfterStats(dry_run)
    /\ UNCHANGED <<stateVars, storeVars, siteVars, cfgVars, run, yi, fileVars, disk, meta, total_stats, ret1,
                   authVars, endVars>>

\* scraper_scrapy.py 267-275: a year without flights is not yielded
SkipEmptyYear ==
    /\ pc = "years"
    /\ yi <= Len(Years)
    /\ CurFlights = <<>>
    /\ yi' = yi + 1
    /\ UNCHANGED <<stateVars, storeVars, siteVars, cfgVars, run, pc, fi, fileVars, disk, meta, stats,
                   total_stats, ret1, authVars, endVars>>

\* the lister is exhausted
YearsDone ==
    /\ pc = "years"
    /\ yi > Len(Years)
    /\ pc' = "summary"
    /\ UNCHANGED <<stateVars, storeVars, siteVars, cfgVars, run, yi, fi, fileVars, disk, meta, stats,
                   total_stats, ret1, authVars, endVars>>

\* cli.py 172-174: accumulate what download_flights returned
ReturnStats ==
    /\ pc = "returned"
    /\ total_stats' = AddStats(total_stats, stats)
    /\ ret1' = IF run = 1
               THEN [ret1 EXCEPT ![CurYear] = [returned |-> TRUE, st |-> stats]]
               ELSE ret1
    /\ yi' = yi + 1
    /\ pc' = "years"
    /\ UNCHANGED <<stateVars, storeVars, siteVars, cfgVars, run, fi, fileVars, disk, meta, stats, authVars,
                   endVars>>

(***************************************************************************)
(* downloader.py: download_flights, the loop over one year's flights       *)
(***************************************************************************)

\* downloader.py 100-121: delete an HTML error page, then skip or download
CheckExisting ==
    /\ pc = "flight"
    /\ fi <= Len(CurFlights)
    /\ LET f  == CurFlight
           d0 == disk[f]
           d1 == IF d0.exists /\ IsHtmlErrorPage(d0.line) THEN NoFile ELSE d0
       IN /\ disk' = [disk EXCEPT ![f] = d1]
          /\ IF SkipsExisting(d1.exists, force)
             THEN /\ stats' = [stats EXCEPT !.skipped = @ + 1]
                  /\ fi' = fi + 1
                  /\ pc' = "flight"
                  /\ UNCHANGED purged
             ELSE /\ pc' = "attempt"
                  /\ purged' = (d1 # d0)
                  /\ UNCHANGED <<stats, fi>>
    /\ UNCHANGED <<stateVars, storeVars, siteVars, cfgVars, run, yi, attempt, resp, reqs, reqSession,
                   refreshed, rejected, meta, total_stats, ret1, authVars,
                   endVars>>

\* downloader.py 167-176: the year's loop ends, the stats are returned
FlightsDone ==
    /\ pc = "flight"
    /\ fi > Len(CurFlights)
    /\ pc' = "returned"
    /\ UNCHANGED <<stateVars, storeVars, siteVars, cfgVars, run, yi, fi, fileVars, disk, meta, stats,
                   total_stats, ret1, authVars, endVars>>

(***************************************************************************)
(* downloader.py: _download_file, the retry loop for one file              *)
(***************************************************************************)

\* downloader.py 189-257: one attempt sends the request on self.session; a
\* non-HTML success response is written to the destination file
SendRequest ==
    /\ pc = "attempt"
    /\ HasAttempt(attempt, max_retries)
    /\ \E r \in Responses :
         /\ resp' = r
         /\ disk' = IF r.exc = "none" /\ ~RaisesHttpError(r) /\ ~IsHtmlResponse(r)
                    THEN [disk EXCEPT ![CurFlight] = File(r.body)]
                    ELSE disk
    /\ reqs' = reqs + 1
    /\ reqSession' = dlSession
    /\ pc' = "handle"
    /\ UNCHANGED <<stateVars, storeVars, siteVars, cfgVars, run, yi, fi, attempt, refreshed, rejected, purged,
                   meta, stats, total_stats, ret1, authVars, endVars>>

\* downloader.py 319-322 and 157-163: retries exhausted, the file is failed
Exhausted ==
    /\ pc = "attempt"
    /\ ~HasAttempt(attempt, max_retries)
    /\ disk' = Unlink(disk, CurFlight)
    /\ CountFailed
    /\ NextFlight
    /\ UNCHANGED <<stateVars, storeVars, siteVars, cfgVars, run, yi, meta, total_stats, ret1, authVars,
                   endVars>>

\* downloader.py 276-281 and 312-317: timeout or another request error
HandleTimeout ==
    /\ pc = "handle"
    /\ resp.exc \in {"timeout", "conn"}
    /\ disk' = Unlink(disk, CurFlight)
    /\ refreshed' = "none"
    /\ NextAttempt
    /\ UNCHANGED <<stateVars, storeVars, siteVars, cfgVars, run, yi, rejected, meta, total_stats, ret1,
                   authVars, endVars>>

\* downloader.py 283-290: HTTP 5xx is retried
HandleServerError ==
    /\ pc = "handle"
    /\ RaisesHttpError(resp)
    /\ IsServerError(resp.status)
    /\ disk' = Unlink(disk, CurFlight)
    /\ refreshed' = "none"
    /\ NextAttempt
    /\ UNCHANGED <<stateVars, storeVars, siteVars, cfgVars, run, yi, rejected, meta, total_stats, ret1,
                   authVars, endVars>>

\* downloader.py 291-296 and 157-163: HTTP 4xx fails the file at once
HandleClientError ==
    /\ pc = "handle"
    /\ RaisesHttpError(resp)
    /\ ~IsServerError(resp.status)
    /\ disk' = Unlink(disk, CurFlight)
    /\ CountFailed
    /\ NextFlight
    /\ UNCHANGED <<stateVars, storeVars, siteVars, cfgVars, run, yi, meta, total_stats, ret1, authVars,
                   endVars>>

\* cli.py 175-177 (download: click.Abort) and 459-460 (map: go on to the
\* summary and the map)
AfterRateLimit(cmd) == IF cmd = "download" THEN "done" ELSE "summary"

\* downloader.py 222-226, 298-302 and 149-156: the rate-limit page raises
\* RateLimitError through _download_file and download_flights to the command
HandleRateLimit ==
    /\ pc = "handle"
    /\ IsRateLimit(resp)
    /\ disk' = Unlink(disk, CurFlight)
    /\ rateLimited' = TRUE
    /\ pc' = AfterRateLimit(command)
    /\ exit' = IF command = "download" THEN "abort" ELSE exit
    /\ UNCHANGED <<stateVars, storeVars, siteVars, cfgVars, run, yi, fi, fileVars, meta, stats, total_stats,
                   ret1, authVars, summary>>

\* mutant: the manager never takes the refreshed session
RefreshSession_KeepsOldSession(ok) ==
    /\ authSession' = FreshSession
    /\ authenticated' = ok
    /\ dlSession' = dlSession
    /\ refreshed' = IF ok THEN "ok" ELSE "failed"

\* auth.py 103-126 called from downloader.py 233-240: the authenticator
\* replaces its session and logs in again; the manager takes the new session
\* only when that succeeded
RefreshSession(ok) ==
    /\ authSession' = FreshSession
    /\ authenticated' = ok
    /\ dlSession' = IF ok THEN FreshSession ELSE dlSession
    /\ refreshed' = IF ok THEN "ok" ELSE "failed"

\* downloader.py 228-242 and 304-310: HTML without the marker is a soft
\* failure: maybe refresh the session, then retry
HandleHtml ==
    /\ pc = "handle"
    /\ IsHtmlResponse(resp)
    /\ ~IsRateLimit(resp)
    /\ IF ShouldRefresh(TRUE, attempt, max_retries)
       THEN \E ok \in BOOLEAN : RefreshSession(ok)
       ELSE /\ refreshed' = "none"
            /\ UNCHANGED authVars
    /\ disk' = Unlink(disk, CurFlight)
    /\ NextAttempt
    /\ UNCHANGED <<stateVars, storeVars, siteVars, cfgVars, run, yi, rejected, meta, total_stats, ret1,
                   endVars>>

\* downloader.py 259-274 and 126-144: the written file is validated; a
\* valid file is a download, an invalid one is deleted and retried
HandleBody ==
    /\ pc = "handle"
    /\ resp.exc = "none"
    /\ ~RaisesHttpError(resp)
    /\ ~IsHtmlResponse(resp)
    /\ IF ValidIgc(disk[CurFlight].line)
       THEN /\ stats' = [stats EXCEPT !.downloaded = @ + 1]
            /\ meta' = IF Dsid(CurFlight) # "" THEN AddFlight(meta, CurFlight)
                                              ELSE meta
            /\ NextFlight
            /\ UNCHANGED disk
       ELSE /\ disk' = Unlink(disk, CurFlight)
            /\ rejected' = rejected + 1
            /\ refreshed' = "none"
            /\ NextAttempt
            /\ UNCHANGED meta
    /\ UNCHANGED <<stateVars, storeVars, siteVars, cfgVars, run, yi, total_stats, ret1, authVars, endVars>>

(***************************************************************************)
(* cli.py: the end of the command                                          *)
(***************************************************************************)

\* cli.py 179-192 (download) and 462-466 (map): is the summary printed
PrintsSummary(cmd, dry, total) ==
    IF cmd = "download" THEN total # 0 /\ ~dry ELSE total > 0

\* cli.py 179-192 / 462-487: the command ends normally
Summarize ==
    /\ pc = "summary"
    /\ summary' = PrintsSummary(command, dry_run, total_stats.total)
    /\ exit' = "ok"
    /\ pc' = "done"
    /\ UNCHANGED <<stateVars, storeVars, siteVars, cfgVars, run, yi, fi, fileVars, disk, meta, stats,
                   total_stats, ret1, authVars, rateLimited>>

\* the same command is run a second time on the files the first run left
SecondRun ==
    /\ pc = "done"
    /\ run = 1
    /\ run' = 2
    /\ pc' = "idle"
    /\ yi' = 1
    /\ fi' = 1
    /\ attempt' = 0
    /\ resp' = NoResponse
    /\ stats' = ZeroStats
    /\ total_stats' = ZeroStats
    /\ reqs' = 0
    /\ authSession' = 1
    /\ authenticated' = FALSE
    /\ dlSession' = 0
    /\ reqSession' = 0
    /\ refreshed' = "none"
    /\ rejected' = 0
    /\ purged' = FALSE
    /\ rateLimited' = FALSE
    /\ summary' = FALSE
    /\ exit' = "running"
    /\ UNCHANGED <<stateVars, storeVars, siteVars, cfgVars, disk, meta, ret1>>

Next ==
    \/ LoginOk
    \/ LoginFail
    \/ CallDownload
    \/ SkipEmptyYear
    \/ YearsDone
    \/ ReturnStats
    \/ CheckExisting
    \/ FlightsDone
    \/ SendRequest
    \/ Exhausted
    \/ HandleTimeout
    \/ HandleServerError
    \/ HandleClientError
    \/ HandleRateLimit
    \/ HandleHtml
    \/ HandleBody
    \/ Summarize

Spec == Init /\ [][Next]_vars

\* the command run twice in succession on the same listing
NextTwice == Next \/ SecondRun

SpecTwice == Init /\ [][NextTwice]_vars

(***************************************************************************)
(* The pipeline at rest, while a store is exercised on its own              *)
(***************************************************************************)

pipeVars == <<cfgVars, run, pc, yi, fi, fileVars, meta, stats, total_stats,
              ret1, authVars, endVars>>

\* everything a store specification leaves alone
pipeRest == <<pipeVars, siteVars>>

PipelineIdle ==
    /\ listing = [y \in YearSet |-> <<>>]
    /\ command = "download"
    /\ force = FALSE
    /\ dry_run = FALSE
    /\ max_retries = DefaultRetries
    /\ run = 1
    /\ pc = "idle"
    /\ yi = 1
    /\ fi = 1
    /\ attempt = 0
    /\ resp = NoResponse
    /\ meta = [f \in Flights |-> "none"]
    /\ stats = ZeroStats
    /\ total_stats = ZeroStats
    /\ ret1 = [y \in YearSet |-> NoReturn]
    /\ reqs = 0
    /\ authSession = 1
    /\ authenticated = FALSE
    /\ dlSession = 0
    /\ reqSession = 0
    /\ refreshed = "none"
    /\ rejected = 0
    /\ purged = FALSE
    /\ rateLimited = FALSE
    /\ summary = FALSE
    /\ exit = "running"

(***************************************************************************)
(* scripts/state_manager.py and scripts/daily_update.py                    *)
(***************************************************************************)

InitState ==
    /\ PipelineIdle
    /\ SiteIdle
    /\ disk = [f \in Flights |-> NoFile]
    /\ mdDoc = NoDoc
    /\ mdRet = NoStoreRet
    /\ psState = CreateEmptyState
    /\ psFile \in {NoStateFile, StateDoc(SeededState)}
    /\ psAlive = FALSE
    /\ psRet = NoRet

\* state_manager.py 21-36: a process constructs its ProcessingState
Construct ==
    /\ ~psAlive
    /\ psAlive' = TRUE
    /\ psState' = LoadState(psFile)
    /\ psRet' = [NoRet EXCEPT !.op = "load"]
    /\ UNCHANGED <<psFile, storeVars, pipeRest, disk>>

\* the process ends and its in-memory state is gone
Exit ==
    /\ psAlive
    /\ psAlive' = FALSE
    /\ psState' = CreateEmptyState
    /\ psRet' = NoRet
    /\ UNCHANGED <<psFile, storeVars, pipeRest, disk>>

\* state_manager.py 120-130
GetNewFlightsCall(all_flights) ==
    /\ psAlive
    /\ psRet' = [NoRet EXCEPT !.op = "get_new_flights", !.names = all_flights,
                              !.ok = TRUE,
                              !.out = GetNewFlights(psState, all_flights)]
    /\ UNCHANGED <<psState, psFile, psAlive, storeVars, pipeRest, disk>>

\* state_manager.py 144-175
MarkFlight(flight_filename, date_str) ==
    /\ psAlive
    /\ psState' = MarkFlightProcessed(psState, flight_filename, date_str)
    /\ psRet' = [NoRet EXCEPT !.op = "mark_flight_processed"]
    /\ UNCHANGED <<psFile, psAlive, storeVars, pipeRest, disk>>

\* state_manager.py 177-199
MarkDate(date_str, satellite_tiles_generated) ==
    /\ psAlive
    /\ psState' = MarkDateProcessed(psState, date_str, satellite_tiles_generated)
    /\ psRet' = [NoRet EXCEPT !.op = "mark_date_processed"]
    /\ UNCHANGED <<psFile, psAlive, storeVars, pipeRest, disk>>

\* state_manager.py 232-235
Reset ==
    /\ psAlive
    /\ psState' = CreateEmptyState
    /\ psRet' = [NoRet EXCEPT !.op = "reset"]
    /\ UNCHANGED <<psFile, psAlive, storeVars, pipeRest, disk>>

\* state_manager.py 72-93: every exception is caught and answered with False
Save(outcome) ==
    /\ psAlive
    /\ psFile' = SaveFile(psFile, psState, outcome)
    /\ psRet' = [NoRet EXCEPT !.op = "save", !.ok = SaveResult(outcome),
                              !.io = outcome]
    /\ UNCHANGED <<psState, psAlive, storeVars, pipeRest, disk>>

\* state_manager.py 85-86: the process stops after open(..., 'w') has
\* truncated the file and before json.dump has written all of it
KilledInSave ==
    /\ psAlive
    /\ psFile' = PartialStateFile
    /\ psAlive' = FALSE
    /\ psState' = CreateEmptyState
    /\ psRet' = NoRet
    /\ UNCHANGED <<storeVars, pipeRest, disk>>

\* daily_update.py 34-47 and 84-148: a DailyUpdater is constructed and
\* download_new_flights runs; ran_ok: the map subprocess returned 0; names:
\* the files rglob finds
DownloadNewFlights(forced, ran_ok, names, outcome) ==
    /\ ~psAlive
    /\ psAlive' = TRUE
    /\ IF ran_ok
       THEN LET loaded == LoadState(psFile)
                fresh  == NewIgcFiles(loaded, names, forced)
                marked == MarkNewFlights(loaded, fresh)
            IN /\ psState' = marked
               /\ psFile' = SaveFile(psFile, marked, outcome)
               /\ psRet' = [op |-> "download_new_flights", names |-> names,
                            ok |-> TRUE, out |-> fresh, io |-> outcome]
       ELSE /\ psState' = LoadState(psFile)
            /\ psFile' = psFile
            /\ psRet' = [op |-> "download_new_flights", names |-> names,
                         ok |-> FALSE, out |-> <<>>, io |-> "none"]
    /\ UNCHANGED <<storeVars, pipeRest, disk>>

NextState ==
    \/ Construct
    \/ Exit
    \/ \E c \in Candidates : GetNewFlightsCall(c)
    \/ \E f \in StateFiles, d \in Dates : MarkFlight(f, d)
    \/ \E d \in Dates, g \in BOOLEAN : MarkDate(d, g)
    \/ Reset
    \/ \E o \in SaveOutcomes : Save(o)
    \/ KilledInSave
    \/ \E forced \in BOOLEAN, ran_ok \in BOOLEAN, c \in FoundFiles,
          o \in SaveOutcomes : DownloadNewFlights(forced, ran_ok, c, o)

SpecState == InitState /\ [][NextState]_vars

(***************************************************************************)
(* metadata.py and the update-metadata command of cli.py                   *)
(***************************************************************************)

InitMeta ==
    /\ PipelineIdle
    /\ SiteIdle
    /\ disk \in [Flights -> UNION {StoreFiles(f) : f \in Flights}]
    /\ \A f \in Flights : disk[f] \in StoreFiles(f)
    /\ mdDoc = NoDoc
    /\ mdRet = NoStoreRet
    /\ psState = CreateEmptyState
    /\ psFile = NoStateFile
    /\ psAlive = FALSE
    /\ psRet = NoRet

\* metadata.py 157-178, called at downloader.py 144 and cli.py 956, 1056
AddFlightCall(r) ==
    /\ mdDoc' = AddFlightToDoc(mdDoc, r)
    /\ mdRet' = [NoStoreRet EXCEPT !.op = "add_flight", !.rec = r]
    /\ UNCHANGED <<disk, stateVars, pipeRest>>

\* metadata.py 209-275
ValidateCall ==
    /\ mdDoc' = ValidateAndFix(mdDoc, disk).doc
    /\ mdRet' = [NoStoreRet EXCEPT !.op = "validate_and_fix_metadata",
                                   !.valid = ValidateAndFix(mdDoc, disk).valid,
                                   !.missing = ValidateAndFix(mdDoc, disk).missing]
    /\ UNCHANGED <<disk, stateVars, pipeRest>>

\* cli.py 1358-1486: update-metadata for one year
UpdateMetadataCall(rows) ==
    /\ mdDoc' = UpdateMetadata(mdDoc, rows)
    /\ mdRet' = [NoStoreRet EXCEPT !.op = "update_metadata"]
    /\ UNCHANGED <<disk, stateVars, pipeRest>>

\* a destination file is written, replaced or removed between two calls
FsChange(f, file) ==
    /\ file # disk[f]
    /\ disk' = [disk EXCEPT ![f] = file]
    /\ mdRet' = NoStoreRet
    /\ UNCHANGED <<mdDoc, stateVars, pipeRest>>

NextMeta ==
    \/ \E r \in Records : AddFlightCall(r)
    \/ ValidateCall
    \/ \E rows \in ApiRows : UpdateMetadataCall(rows)
    \/ \E f \in Flights : \E file \in StoreFiles(f) : FsChange(f, file)

SpecMeta == InitMeta /\ [][NextMeta]_vars

(***************************************************************************)
(* auth.py: the authenticator called in any order                          *)
(***************************************************************************)

\* the pipeline and the stores at rest
baseVars == <<pipeVars, disk, stateVars, storeVars, writerVars>>

\* what the authenticator and the download command leave alone
restVars == <<baseVars, spiderVars>>

BaseIdle ==
    /\ PipelineIdle
    /\ disk = [f \in Flights |-> NoFile]
    /\ psState = CreateEmptyState
    /\ psFile = NoStateFile
    /\ psAlive = FALSE
    /\ psRet = NoRet
    /\ mdDoc = NoDoc
    /\ mdRet = NoStoreRet
    /\ WritersIdle

InitAuth ==
    /\ BaseIdle
    /\ AuthIdle
    /\ RunIdle
    /\ SpiderIdle

\* auth.py 27-91
LoginCall(u, p, ok) ==
    /\ oa' = AuthLogin(oa, u, p, ok).auth
    /\ oaLoggedIn' = (oaLoggedIn \/ ok)
    /\ oaRet' = [NoAuthRet EXCEPT !.op = "login",
                                  !.raised = AuthLogin(oa, u, p, ok).raised]
    /\ UNCHANGED <<restVars, runVars>>

\* auth.py 97-101
GetSessionCall ==
    /\ oaRet' = [NoAuthRet EXCEPT !.op = "get_session",
                                  !.raised = AuthGetSession(oa).raised,
                                  !.session = AuthGetSession(oa).session]
    /\ UNCHANGED <<oa, oaLoggedIn, restVars, runVars>>

\* auth.py 103-126
RefreshSessionCall(ok) ==
    /\ oa.session < MaxSessions
    /\ oa' = AuthRefreshSession(oa, ok).auth
    /\ oaLoggedIn' = (oaLoggedIn \/ ~AuthRefreshSession(oa, ok).raised)
    /\ oaRet' = [NoAuthRet EXCEPT !.op = "refresh_session",
                                  !.raised = AuthRefreshSession(oa, ok).raised]
    /\ UNCHANGED <<restVars, runVars>>

\* auth.py 93-95
IsAuthenticatedCall ==
    /\ oaRet' = [NoAuthRet EXCEPT !.op = "is_authenticated",
                                  !.value = IsAuthenticated(oa)]
    /\ UNCHANGED <<oa, oaLoggedIn, restVars, runVars>>

NextAuth ==
    \/ \E u \in Creds, p \in Creds, ok \in BOOLEAN : LoginCall(u, p, ok)
    \/ GetSessionCall
    \/ IsAuthenticatedCall
    \/ \E ok \in BOOLEAN : RefreshSessionCall(ok)

SpecAuth == InitAuth /\ [][NextAuth]_vars

(***************************************************************************)
(* cli.py 114-287: the download command, year by year                      *)
(***************************************************************************)

InitRun ==
    /\ BaseIdle
    /\ AuthIdle
    /\ SpiderIdle
    /\ rnAllPilots \in BOOLEAN
    /\ rnYear \in {NoYear} \cup Elems(GetAvailableYears)
    /\ rnDry \in BOOLEAN
    /\ rnPc = "start"
    /\ rnYi = 1
    /\ rnPilot = FALSE
    /\ rnScraper = 0
    /\ rnDl = 0
    /\ rnFound = 0
    /\ rnTotal = ZeroStats
    /\ rnLog = <<>>
    /\ rnSummary = FALSE
    /\ rnExit = "running"

\* the year the lister works on
RunYear == RequestedYears(rnYear)[rnYi]

\* scraper_scrapy.py 47-68 and 114: the personal scope looks the pilot id up
\* on the scraper's session unless it has it already
PilotLookup == ~rnAllPilots /\ ~rnPilot

\* the requests scraping one year makes: the pilot-id lookup, then the spider
\* run with the cookies of the scraper's session (scrapy_runner.py 30-38 and
\* 150-158)
ScrapeEvents(outcome) ==
    (IF PilotLookup
     THEN <<Event("pilot", RunYear, rnScraper, oa.session, 0)>> ELSE <<>>)
    \o (IF outcome.exc = PilotError THEN <<>>
        ELSE <<Event("listing", RunYear, rnScraper, oa.session,
                     outcome.found)>>)

\* cli.py 136-152 / 209: login, then the scraper and the DownloadManager are
\* constructed with auth.get_session()
RunLogin(ok) ==
    /\ rnPc = "start"
    /\ oa' = AuthLogin(oa, "u", "u", ok).auth
    /\ oaLoggedIn' = ok
    /\ oaRet' = [NoAuthRet EXCEPT !.op = "login", !.raised = ~ok]
    /\ rnScraper' = IF ok THEN AuthGetSession(oa').session ELSE 0
    /\ rnDl' = IF ok THEN AuthGetSession(oa').session ELSE 0
    /\ rnPc' = AfterLogin(ok)
    /\ rnExit' = IF ok THEN "running" ELSE "abort"
    /\ UNCHANGED <<restVars, runCfg, rnYi, rnPilot, rnFound, rnTotal, rnLog,
                   rnSummary>>

\* scraper_scrapy.py 171-186 and 234-280: an incremental lister scrapes its
\* next year; a failure is caught and the year skipped, an empty year is
\* passed over after the wait, a year with flights is yielded
ScrapeYear(outcome) ==
    /\ rnPc = "list"
    /\ UsesLister(rnAllPilots, rnYear)
    /\ rnYi <= Len(RequestedYears(rnYear))
    /\ (outcome.exc = PilotError) => PilotLookup
    /\ rnLog' = rnLog \o ScrapeEvents(outcome)
                \o (IF Sleeps(outcome) /\ AfterYield(outcome.found) = "list"
                    THEN <<Event("sleep", RunYear, 0, 0, 0)>> ELSE <<>>)
    /\ rnPilot' = (rnPilot \/ (PilotLookup /\ outcome.exc # PilotError))
    /\ IF Failed(outcome)
       THEN IF ListerCatches(rnAllPilots, outcome)
            THEN /\ rnYi' = rnYi + 1
                 /\ UNCHANGED <<rnPc, rnFound, rnExit>>
            ELSE /\ rnPc' = "done"
                 /\ rnExit' = "abort"
                 /\ UNCHANGED <<rnYi, rnFound>>
       ELSE /\ rnFound' = outcome.found
            /\ rnPc' = AfterYield(outcome.found)
            /\ rnYi' = IF AfterYield(outcome.found) = "download" THEN rnYi
                                                               ELSE rnYi + 1
            /\ UNCHANGED rnExit
    /\ UNCHANGED <<restVars, authObjVars, runCfg, rnScraper, rnDl, rnTotal,
                   rnSummary>>

\* cli.py 213-216 with scraper_scrapy.py 102-154 and cli.py 285-287: the
\* personal scope with --year calls get_flights_for_year outside any lister;
\* its ScrapingError is an OLCDownloaderError and ends the command
ListSingleYear(outcome) ==
    /\ rnPc = "list"
    /\ ~UsesLister(rnAllPilots, rnYear)
    /\ (outcome.exc = PilotError) => PilotLookup
    /\ rnLog' = rnLog \o ScrapeEvents(outcome)
    /\ rnPilot' = (rnPilot \/ (PilotLookup /\ outcome.exc # PilotError))
    /\ IF Failed(outcome)
       THEN /\ rnPc' = "done"
            /\ rnExit' = "abort"
            /\ UNCHANGED rnFound
       ELSE /\ rnFound' = outcome.found
            /\ rnPc' = IF outcome.found > 0 THEN "download" ELSE "end"
            /\ UNCHANGED rnExit
    /\ UNCHANGED <<restVars, authObjVars, runCfg, rnYi, rnScraper, rnDl,
                   rnTotal, rnSummary>>

\* the lister has gone through its years
ListerDone ==
    /\ rnPc = "list"
    /\ UsesLister(rnAllPilots, rnYear)
    /\ rnYi > Len(RequestedYears(rnYear))
    /\ rnPc' = "end"
    /\ UNCHANGED <<restVars, authObjVars, runCfg, rnYi, rnPilot, rnScraper,
                   rnDl, rnFound, rnTotal, rnLog, rnSummary, rnExit>>

\* cli.py 162-177 / 217-244 with downloader.py 55-180 and 228-242: the
\* caller downloads the yielded year and asks the lister for the next one,
\* which resumes it at its wait; a soft failure refreshes the
\* authenticator's session and the manager takes the new one only when the
\* refresh succeeded; RateLimitError ends the command with click.Abort
DownloadYear(o) ==
    /\ rnPc = "download"
    /\ o \in DownloadOutcomes(rnFound)
    /\ rnDry => o = NoRequests
    /\ LET sends     == ~rnDry /\ o.skipped < rnFound
           refreshes == sends /\ o.refresh # "none"
           r         == AuthRefreshSession(oa, o.refresh = "ok")
           rate      == sends /\ o.rate_limit
       IN /\ refreshes => oa.session < MaxSessions
          /\ oa' = IF refreshes THEN r.auth ELSE oa
          /\ oaLoggedIn' = (oaLoggedIn \/ (refreshes /\ ~r.raised))
          /\ oaRet' = IF refreshes
                      THEN [NoAuthRet EXCEPT !.op = "refresh_session",
                                             !.raised = r.raised]
                      ELSE oaRet
          /\ rnDl' = IF refreshes /\ ~r.raised
                     THEN AuthGetSession(r.auth).session ELSE rnDl
          /\ rnLog' = rnLog
                \o (IF sends
                    THEN <<Event("download", RunYear, rnDl, oa.session, 0)>>
                    ELSE <<>>)
                \o (IF refreshes
                    THEN <<Event("download", RunYear, rnDl', oa'.session, 0)>>
                    ELSE <<>>)
                \o <<Event(IF rate THEN "rate_limit" ELSE "returned",
                           RunYear, 0, 0, 0)>>
                \o (IF ~rate /\ UsesLister(rnAllPilots, rnYear)
                    THEN <<Event("sleep", RunYear, 0, 0, 0)>> ELSE <<>>)
          /\ IF rate
             THEN /\ rnPc' = AfterRateLimit("download")
                  /\ rnExit' = "abort"
                  /\ UNCHANGED <<rnTotal, rnYi>>
             ELSE /\ rnTotal' = AddStats(rnTotal, YearStats(rnFound, rnDry, o))
                  /\ rnPc' = IF UsesLister(rnAllPilots, rnYear) THEN "list"
                                                                ELSE "end"
                  /\ rnYi' = rnYi + 1
                  /\ UNCHANGED rnExit
    /\ UNCHANGED <<restVars, runCfg, rnPilot, rnScraper, rnFound, rnSummary>>

\* cli.py 179-192 / 246-257: "No flights found" or the summary
Finish ==
    /\ rnPc = "end"
    /\ rnSummary' = PrintsSummary("download", rnDry, rnTotal.total)
    /\ rnExit' = "ok"
    /\ rnPc' = "done"
    /\ UNCHANGED <<restVars, authObjVars, runCfg, rnYi, rnPilot, rnScraper,
                   rnDl, rnFound, rnTotal, rnLog>>

NextRun ==
    \/ \E ok \in BOOLEAN : RunLogin(ok)
    \/ \E outcome \in ScrapeOutcomes : ScrapeYear(outcome)
    \/ \E outcome \in ScrapeOutcomes : ListSingleYear(outcome)
    \/ ListerDone
    \/ \E o \in DownloadOutcomes(MaxFound) : DownloadYear(o)
    \/ Finish

SpecRun == InitRun /\ [][NextRun]_vars

(***************************************************************************)
(* SpecSpider: one run of a spider.  The scheduler answers the requests    *)
(* the callbacks yield in any order; the directory of the year (disk and   *)
(* mdDoc) is what earlier runs left behind.                                *)
(***************************************************************************)

\* the metadata.json an earlier run left in the directory
SpiderDocs ==
    {NoDoc, SaveMetadata(<<RowRecord("f1"), RowRecord("f2")>>)}

InitSpider ==
    /\ PipelineIdle
    /\ AuthIdle
    /\ RunIdle
    /\ SpiderIdle
    /\ WritersIdle
    /\ disk \in [Flights -> UNION {StoreFiles(f) : f \in Flights}]
    /\ \A f \in Flights : disk[f] \in StoreFiles(f)
    /\ mdDoc \in SpiderDocs
    /\ mdRet = NoStoreRet
    /\ psState = CreateEmptyState
    /\ psFile = NoStateFile
    /\ psAlive = FALSE
    /\ psRet = NoRet

\* one listing request as the log of the run keeps it
ListingSent(req, parsed, rows, total, more) ==
    [offset |-> req.offset, limit |-> req.limit, parsed |-> parsed,
     rows |-> rows, total |-> total, more |-> more]

\* airport_spider.py 25-41 and 116-150 (scrapy_runner.py 137-257), or
\* olc_spider.py 25-82 (scrapy_runner.py 19-135): the spider is constructed
\* and its first request is yielded; the first listing request of the
\* airport spider carries offset 0 and no limit
SpiderStart(kind, min_points) ==
    /\ spPc = "init"
    /\ spPc' = "crawl"
    /\ spKind' = kind
    /\ spMin' = min_points
    /\ spSeen' = IF kind = "airport" THEN LoadExistingMetadata(mdDoc, disk)
                 ELSE {}
    /\ spPending' = {ListReq(0, 0)}
    /\ UNCHANGED <<baseVars, authObjVars, runVars, spList, spInfo, spItems,
                   spBatch>>

\* airport_spider.py 268-269: is a further listing request yielded
HasMore(req, response) ==
    response.kind = "json" /\ req.offset + Len(response.rows) < Total(response)

\* airport_spider.py 156-294: the rows of the batch are gated and their
\* detail pages requested (a detail request already made is dropped by the
\* scheduler), and the next listing request, which is sent with dont_filter,
\* is yielded at the offset after the rows of this batch
JsonBatch(req, response) ==
    /\ spPc = "crawl"
    /\ spKind = "airport"
    /\ req \in spPending
    /\ req.kind = "list"
    /\ LET rows == response.rows
           total == Total(response)
           next_offset == req.offset + Len(rows)
           infos == {InfoReq(rows[i].id, Float(rows[i].points)) :
                        i \in {j \in 1..Len(rows) :
                                  FollowsRow(rows[j], spSeen, spMin)}}
       IN /\ spInfo' = spInfo \cup infos
          /\ spPending' =
                ((spPending \ {req}) \cup (infos \ spInfo))
                \cup (IF HasMore(req, response)
                      THEN {ListReq(next_offset, NextLimit(total, next_offset))}
                      ELSE {})
          /\ spBatch' = IF HasMore(req, response) THEN (spBatch + 1) % 2
                        ELSE spBatch
    /\ UNCHANGED <<baseVars, authObjVars, runVars, spKind, spMin, spSeen,
                   spItems, spPc>>

\* the callback with the request and its answer added to the log of the run
ParseJsonBatch(req, response) ==
    /\ Len(spList) < MaxBatches
    /\ JsonBatch(req, response)
    /\ spList' = Append(spList,
                        ListingSent(req, response.kind = "json",
                                    Len(response.rows), Total(response),
                                    HasMore(req, response)))

\* olc_spider.py 84-269: every download link of the flightbook page with a
\* flightId becomes a descriptor at once; only a page without download links
\* has its flightinfo links followed, one request per dsId
ParseFlightbook(req, page) ==
    /\ spPc = "crawl"
    /\ spKind = "flightbook"
    /\ req \in spPending
    /\ req.kind = "list"
    /\ LET links == {i \in 1..Len(page.direct) : HasFlightId(page.direct[i])}
           infos == IF page.direct = <<>>
                    THEN {InfoReq(page.info[i].id, Float(page.info[i].points)) :
                             i \in {j \in 1..Len(page.info) :
                                       page.info[j].id # ""}}
                    ELSE {}
       IN /\ spItems' = spItems \cup
                {[dsid |-> "", link |-> page.direct[i], via |-> "listing"] :
                    i \in links}
          /\ spInfo' = spInfo \cup infos
          /\ spPending' = (spPending \ {req}) \cup (infos \ spInfo)
          /\ spList' = Append(spList,
                              ListingSent(req, TRUE, Len(page.info),
                                     Len(page.info), FALSE))
    /\ UNCHANGED <<baseVars, authObjVars, runVars, spKind, spMin, spSeen,
                   spPc,
                   spBatch>>

\* airport_spider.py 435-504, olc_spider.py 271-349: the descriptor of the
\* flight is yielded when the first link that is no KML link has a flightId
\* (a page that failed to load yields nothing, as a page without links)
ParseFlightinfo(req, page) ==
    /\ spPc = "crawl"
    /\ req \in spPending
    /\ req.kind = "info"
    /\ spPending' = spPending \ {req}
    /\ spItems' = spItems \cup
          (IF HasFlightId(IgcLink(page))
           THEN {[dsid |-> req.dsid, link |-> IgcLink(page), via |-> "detail"]}
           ELSE {})
    /\ UNCHANGED <<baseVars, authObjVars, runVars, spKind, spMin, spSeen,
                   spList, spInfo, spPc,
                   spBatch>>

\* the scheduler is empty: the spider closes
SpiderClose ==
    /\ spPc = "crawl"
    /\ spPending = {}
    /\ spPc' = "closed"
    /\ UNCHANGED <<baseVars, authObjVars, runVars, spKind, spMin, spSeen,
                   spPending, spList, spInfo, spItems,
                   spBatch>>

NextSpider ==
    \/ \E kind \in {"airport", "flightbook"}, m \in MinOptions :
          SpiderStart(kind, m)
    \/ \E req \in spPending, response \in ListResponses : ParseJsonBatch(req, response)
    \/ \E req \in spPending, page \in FlightbookPages :
          ParseFlightbook(req, page)
    \/ \E req \in spPending, page \in DetailPages : ParseFlightinfo(req, page)
    \/ SpiderClose

SpecSpider == InitSpider /\ [][NextSpider]_vars

(***************************************************************************)
(* SpecWriters: two runs on one scope at the same time.  Each calls        *)
(* MetadataStore.add_flight once on the document of the same year, and     *)
(* each makes a ProcessingState of the same airport, marks a flight and    *)
(* saves; the steps of the two runs interleave freely.                     *)
(***************************************************************************)

\* the records the runs add: flights the document does not hold yet
WriterRecs == {r \in Records : r.dsid # "f3" /\ r.download_status = "downloaded"}

\* what the writers leave alone
writerRest == <<pipeVars, disk, authObjVars, runVars, spiderVars, psState,
                psAlive, psRet, mdRet>>

InitWriters ==
    /\ PipelineIdle
    /\ AuthIdle
    /\ RunIdle
    /\ SpiderIdle
    /\ WritersIdle
    /\ disk = [f \in Flights |-> NoFile]
    /\ psState = CreateEmptyState
    /\ psAlive = FALSE
    /\ psRet = NoRet
    /\ mdRet = NoStoreRet
    /\ mdDoc \in {NoDoc, SaveMetadata(<<RowRecord("f3")>>)}
    /\ psFile \in {NoStateFile, StateDoc(SeededState)}

\* metadata.py 171-175: add_flight loads the document and puts its record
\* into the loaded dict
AddFlightLoad(w, r) ==
    /\ mwPc[w] = "idle"
    /\ mwPc' = [mwPc EXCEPT ![w] = "loaded"]
    /\ mwRec' = [mwRec EXCEPT ![w] = r]
    /\ mwMem' = [mwMem EXCEPT ![w] = Upsert(LoadMetadata(mdDoc), r)]
    /\ UNCHANGED <<writerRest, mdDoc, psFile, swPc, swState, swName>>

\* metadata.py 178: add_flight saves the dict
AddFlightSave(w) ==
    /\ mwPc[w] = "loaded"
    /\ mwPc' = [mwPc EXCEPT ![w] = "done"]
    /\ mdDoc' = SavedDoc(mdDoc, mwMem[w])
    /\ UNCHANGED <<writerRest, psFile, mwMem, mwRec, swPc, swState, swName>>

\* state_manager.py 21-36: the run makes its ProcessingState, which loads
\* the state file
WriterConstruct(w) ==
    /\ swPc[w] = "idle"
    /\ swPc' = [swPc EXCEPT ![w] = "alive"]
    /\ swState' = [swState EXCEPT ![w] = LoadState(psFile)]
    /\ UNCHANGED <<writerRest, mdDoc, psFile, mwPc, mwMem, mwRec, swName>>

\* state_manager.py 144-175
WriterMark(w, flight_filename, date_str) ==
    /\ swPc[w] = "alive"
    /\ swPc' = [swPc EXCEPT ![w] = "marked"]
    /\ swName' = [swName EXCEPT ![w] = flight_filename]
    /\ swState' = [swState EXCEPT ![w] =
                      MarkFlightProcessed(swState[w], flight_filename, date_str)]
    /\ UNCHANGED <<writerRest, mdDoc, psFile, mwPc, mwMem, mwRec>>

\* state_manager.py 72-93
WriterSave(w, outcome) ==
    /\ swPc[w] = "marked"
    /\ swPc' = [swPc EXCEPT ![w] = "done"]
    /\ psFile' = SaveFile(psFile, swState[w], outcome)
    /\ UNCHANGED <<writerRest, mdDoc, mwPc, mwMem, mwRec, swState, swName>>

NextWriters ==
    \/ \E w \in Writers, r \in WriterRecs : AddFlightLoad(w, r)
    \/ \E w \in Writers : AddFlightSave(w)
    \/ \E w \in Writers : WriterConstruct(w)
    \/ \E w \in Writers, f \in StateFiles, d \in Dates : WriterMark(w, f, d)
    \/ \E w \in Writers, outcome \in SaveOutcomes : WriterSave(w, outcome)

SpecWriters == InitWriters /\ [][NextWriters]_vars

(***************************************************************************)
(* SpecPaging: one crawl of the airport spider against a site that reports *)
(* the same total in every listing response.  The engine keeps answering   *)
(* the requests in its scheduler (CrawlerProcess.start, scrapy_runner.py   *)
(* 137-257), which the fairness conditions state.                          *)
(***************************************************************************)

\* the listing responses of a site with PagingTotal rows for the year: any
\* batch of rows, an empty one included, with the total as count
PagingResponses ==
    {[kind |-> "json", rows |-> b, count |-> PagingTotal] : b \in Batches}

InitPaging ==
    /\ BaseIdle
    /\ AuthIdle
    /\ RunIdle
    /\ SpiderIdle

PagingStart == \E m \in MinOptions : SpiderStart("airport", m)

PagingBatch ==
    \E req \in spPending, response \in PagingResponses :
        JsonBatch(req, response) /\ UNCHANGED spList

PagingInfo ==
    \E req \in spPending, page \in DetailPages : ParseFlightinfo(req, page)

NextPaging ==
    \/ PagingStart
    \/ PagingBatch
    \/ PagingInfo
    \/ SpiderClose

SpecPaging ==
    /\ InitPaging
    /\ [][NextPaging]_vars
    /\ WF_vars(PagingStart)
    /\ WF_vars(PagingBatch)
    /\ WF_vars(PagingInfo)
    /\ WF_vars(SpiderClose)

(***************************************************************************)
(* Properties                                                              *)
(***************************************************************************)

\* the first line is an HTML doctype or html tag
HtmlTagLine(l) == StartsWith(l, DoctypePrefix) \/ StartsWith(l, HtmlPrefix)

\* a success response of content type text/html with / without the marker
RateLimitPage(r)   == r.exc = "none" /\ r.status = 200 /\ r.html /\ r.marker
SoftFailurePage(r) == r.exc = "none" /\ r.status = 200 /\ r.html /\ ~r.marker

\* a success response carrying a payload whose first line is b
Payload(r, b) == r.exc = "none" /\ r.status = 200 /\ ~r.html /\ r.body = b

\* C1 as claimed: when download_flights has returned for a year's flights and
\* is run again on them (force and dry_run both false), the second call
\* returns downloaded = 0 and skipped = total
C1_SecondRunSkipsAll ==
    (run = 2 /\ pc = "returned" /\ ~force /\ ~dry_run /\ ret1[CurYear].returned) =>
        (stats.downloaded = 0 /\ stats.skipped = stats.total)

\* C1 amended: when the first run's download_flights call for the same flights
\* returned with failed = 0 (force and dry_run both false), the second call
\* returns downloaded = 0 and skipped = total
C1_Idempotent ==
    ( /\ run = 2 /\ pc = "returned" /\ ~force /\ ~dry_run
      /\ ret1[CurYear].returned /\ ret1[CurYear].st.failed = 0 ) =>
        (stats.downloaded = 0 /\ stats.failed = 0 /\ stats.skipped = stats.total)

\* C1 witness: the first run downloaded both flights of the year and the
\* second run skipped both
C1_Witness ==
    /\ run = 2 /\ pc = "returned" /\ ~force /\ ~dry_run
    /\ ret1[CurYear].returned /\ ret1[CurYear].st.downloaded = 2
    /\ stats.skipped = 2

\* C2: a rate-limit page raises at once (no retry of that file) and ends the
\* download loop: from then on no download request is sent in the run, for
\* no file of this year or of a later year
C2_RateLimitAbort ==
    [][ /\ (pc = "handle" /\ RateLimitPage(resp)) =>
              (rateLimited' /\ pc' \in {"done", "summary"} /\ reqs' = reqs)
        /\ rateLimited =>
              (reqs' = reqs /\ pc' \notin {"years", "flight", "attempt", "handle"})
      ]_vars

\* C2 witness: the limit was hit on the first request of the first file, with
\* a second file in that year and a flight in the year before still to come
C2_Witness ==
    /\ rateLimited /\ pc = "done" /\ yi = 1 /\ fi = 1 /\ reqs = 1
    /\ Len(listing["2025"]) = 2 /\ listing["2024"] # <<>>

\* C3 as claimed: a run aborted by the rate limit ends successfully and with
\* its statistics summary, in the download command and in the map command
C3_RateLimitedRunSummarizes ==
    (rateLimited /\ pc = "done") => (exit = "ok" /\ summary)

\* C4: at most max_retries requests are sent for a file; when they have all
\* failed, the destination file does not exist, the file is counted as
\* failed once, and the loop goes on with the next file
C4_RetryBound ==
    /\ [](reqs <= max_retries)
    /\ [][ (pc = "attempt" /\ reqs = max_retries) =>
              ( /\ ~disk'[CurFlight].exists
                /\ stats' = [stats EXCEPT !.failed = @ + 1]
                /\ pc' = "flight" /\ fi' = fi + 1 /\ yi' = yi
                /\ ~rateLimited' )
         ]_vars

\* C4 witness: three requests were sent with max_retries = 3 and none
\* succeeded
C4_Witness ==
    pc = "attempt" /\ max_retries = 3 /\ reqs = 3 /\ attempt = 3

\* C5: with max_retries = 3, after two files rejected by the validation a
\* valid third one is counted as downloaded, not failed, and is the final
\* file; every rejected file is deleted before the next attempt
C5_ThirdAttemptSucceeds ==
    /\ []((pc = "attempt" /\ attempt > 0) => ~disk[CurFlight].exists)
    /\ [][ /\ ( /\ pc = "handle" /\ max_retries = 3 /\ reqs = 3 /\ rejected = 2
                /\ Payload(resp, LineIgcA) ) =>
                  ( /\ stats' = [stats EXCEPT !.downloaded = @ + 1]
                    /\ disk'[CurFlight] = File(LineIgcA)
                    /\ pc' = "flight" /\ fi' = fi + 1 )
           /\ ( /\ pc = "handle"
                /\ \E b \in {LineDoctype, LineJunk, LineEmpty} : Payload(resp, b) ) =>
                  ( /\ ~disk'[CurFlight].exists
                    /\ rejected' = rejected + 1
                    /\ stats' = stats )
         ]_vars

\* C5 witness: the third attempt wrote a valid file after two rejected ones
C5_Witness ==
    /\ pc = "handle" /\ max_retries = 3 /\ reqs = 3 /\ rejected = 2
    /\ Payload(resp, LineIgcA) /\ disk[CurFlight] = File(LineIgcA)

\* C6: a client error (4xx) fails the file with no further attempt; a server
\* error (5xx), a timeout or a rejected file returns to the retry loop, and
\* the loop sends another request whenever fewer than max_retries were sent
C6_RetryClassification ==
    [][ /\ (pc = "handle" /\ resp.exc = "none" /\ resp.status \in 400..499) =>
              ( /\ pc' = "flight" /\ fi' = fi + 1
                /\ stats' = [stats EXCEPT !.failed = @ + 1] )
        /\ ( /\ pc = "handle"
             /\ \/ resp.exc = "timeout"
                \/ (resp.exc = "none" /\ resp.status \in 500..599)
                \/ \E b \in {LineDoctype, LineJunk, LineEmpty} : Payload(resp, b) ) =>
              (pc' = "attempt" /\ fi' = fi /\ stats' = stats)
        /\ (pc = "attempt" /\ reqs < max_retries) =>
              (pc' = "handle" /\ reqs' = reqs + 1)
      ]_vars

\* C6 witness: the first of three allowed requests was answered with 404
C6_Witness ==
    pc = "handle" /\ resp.status = 404 /\ reqs = 1 /\ max_retries = 3

\* C7: without force, an existing destination file that is no HTML error
\* page is skipped: no request, the file and the metadata unchanged, skipped
\* incremented by one
C7_SkipRule ==
    [][ ( /\ pc = "flight" /\ fi <= Len(CurFlights) /\ ~force
          /\ disk[CurFlight].exists /\ ~HtmlTagLine(disk[CurFlight].line) ) =>
            ( /\ disk' = disk /\ meta' = meta /\ reqs' = reqs
              /\ stats' = [stats EXCEPT !.skipped = @ + 1]
              /\ pc' = "flight" /\ fi' = fi + 1 )
      ]_vars

\* C7 witness: the first flight's file, an arbitrary text, was kept and
\* counted as skipped
C7_Witness ==
    /\ pc = "flight" /\ yi = 1 /\ fi = 2 /\ ~force /\ stats.skipped = 1
    /\ disk["f1"] = File(LineJunk) /\ meta["f1"] = "none"

\* C8: an existing destination file whose first line is an HTML doctype or
\* html tag is deleted and a download request is sent, with or without
\* force; the flight is not counted as skipped
C8_HtmlFileReplaced ==
    [][ /\ ( /\ pc = "flight" /\ fi <= Len(CurFlights)
             /\ disk[CurFlight].exists /\ HtmlTagLine(disk[CurFlight].line) ) =>
               ( /\ ~disk'[CurFlight].exists /\ purged'
                 /\ pc' = "attempt" /\ fi' = fi /\ stats' = stats )
        /\ (pc = "attempt" /\ purged /\ reqs = 0) => (pc' = "handle" /\ reqs' = 1)
        /\ purged => (stats'.skipped = stats.skipped \/ fi' # fi)
      ]_vars

\* C8 witness: without force the HTML page was deleted and the request sent
C8_Witness ==
    pc = "handle" /\ purged /\ ~force /\ reqs = 1

\* C9: a dry run sends no request, changes no file and no metadata, and
\* returns total = number of flights with the other three counters 0
C9_DryRun ==
    /\ []((dry_run /\ pc = "returned") =>
            stats = [ZeroStats EXCEPT !.total = Len(CurFlights)])
    /\ [][ dry_run =>
              ( /\ disk' = disk /\ meta' = meta /\ reqs' = reqs
                /\ pc' \notin {"flight", "attempt", "handle"} )
         ]_vars

\* C9 witness: the dry run returned for the two flights of the first year
\* and left the HTML error page of the first one in place
C9_Witness ==
    /\ dry_run /\ pc = "returned" /\ yi = 1 /\ stats.total = 2
    /\ disk["f1"] = File(LineDoctype)

\* C10: an HTML response without the marker, with a retry left, makes the
\* authenticator refresh its session once; the retry loop goes on whether
\* the refresh succeeded or failed, and after a successful one the next
\* request is sent on the authenticator's new session
C10_SoftFailureRefresh ==
    [][ /\ (pc = "handle" /\ SoftFailurePage(resp) /\ reqs < max_retries) =>
              ( /\ refreshed' \in {"ok", "failed"}
                /\ authSession' \notin {authSession, dlSession}
                /\ pc' = "attempt" /\ fi' = fi /\ stats' = stats )
        /\ (pc = "attempt" /\ refreshed # "none") =>
              (pc' = "handle" /\ reqs' = reqs + 1)
        /\ (pc = "attempt" /\ refreshed = "ok") =>
              (authenticated /\ reqSession' = authSession)
      ]_vars

\* C10 witness: the second request was sent on the session of a successful
\* refresh
C10_Witness ==
    /\ pc = "handle" /\ refreshed = "ok" /\ reqs = 2
    /\ reqSession = authSession /\ reqSession # 1

C12_RunMarksAllFound ==
    (psRet.op = "download_new_flights" /\ psRet.ok) =>
        \A f \in Elems(psRet.names) :
            /\ IsFlightProcessed(psState, f)
            /\ IsFlightProcessed(LoadState(psFile), f)

\* the dates whose flight list holds the file name
DatesListing(s, f) ==
    {d \in Dates : f \in Elems(s.processed_dates[d].flights)}

\* the list has no element twice
NoDuplicate(seq) ==
    \A i, j \in 1..Len(seq) : seq[i] = seq[j] => i = j

\* C13 as claimed: every file name is in at most one date's flight list, and
\* at most once in that list
C13_OneDatePerFile ==
    /\ \A f \in StateFiles : Cardinality(DatesListing(psState, f)) <= 1
    /\ \A d \in Dates : NoDuplicate(psState.processed_dates[d].flights)

\* out holds exactly the elements of all_flights that the predicate keeps,
\* in their order
IsFilteredBy(out, all_flights, Keep(_)) ==
    LET idx == {i \in 1..Len(all_flights) : Keep(all_flights[i])}
    IN /\ Len(out) = Cardinality(idx)
       /\ \A k \in 1..Len(out) :
            \E i \in idx : /\ Cardinality({j \in idx : j <= i}) = k
                           /\ out[k] = all_flights[i]

\* C14: get_new_flights returns exactly the candidates that are not processed,
\* in their original order, and leaves the ledger and its file unchanged
C14_GetNewFlights ==
    [][ psRet'.op = "get_new_flights" =>
          /\ psState' = psState
          /\ psFile' = psFile
          /\ LET NotProcessed(f) == ~IsFlightProcessed(psState, f)
             IN IsFilteredBy(psRet'.out, psRet'.names, NotProcessed)
      ]_vars

\* C14 witness: with only the first file processed, a list naming the
\* second file twice around the first was filtered
C14_Witness ==
    /\ psRet.op = "get_new_flights"
    /\ psRet.names = <<IgcB, IgcA, IgcB>>
    /\ psRet.out = <<IgcB, IgcB>>
    /\ IsFlightProcessed(psState, IgcA)

\* C15: mark_flight_processed changes is_date_processed for no date, and
\* within a process is_date_processed(d) turns true only in a
\* mark_date_processed(d, True) step
C15_DateIndependence ==
    [][ /\ psRet'.op = "mark_flight_processed" =>
              \A d \in Dates : IsDateProcessed(psState', d) = IsDateProcessed(psState, d)
        /\ (psAlive /\ psAlive') =>
              \A d \in Dates :
                  (~IsDateProcessed(psState, d) /\ IsDateProcessed(psState', d)) =>
                      ( /\ psRet'.op = "mark_date_processed"
                        /\ psState' = MarkDateProcessed(psState, d, TRUE) )
      ]_vars

\* C15 witness: a flight was recorded under a date that is not marked as
\* processed
C15_Witness ==
    /\ psRet.op = "mark_flight_processed"
    /\ IgcB \in Elems(psState.processed_dates["2024-07-02"].flights)
    /\ ~IsDateProcessed(psState, "2024-07-02")

\* C16: save returns a boolean in every case: True when the document was
\* written, False when mkdir, open or json.dump failed; the processed
\* flights and dates in memory are the same after it
C16_SaveNeverRaises ==
    [][ psRet'.op = "save" =>
          /\ psAlive'
          /\ psState' = psState
          /\ psRet'.io = "ok" => (psRet'.ok /\ psFile' = StateDoc(psState))
          /\ psRet'.io # "ok" => ~psRet'.ok
      ]_vars

\* C16 witness: a save that failed while writing returned False and the
\* recorded flight is still in memory
C16_Witness ==
    /\ psRet.op = "save" /\ psRet.io = "partial" /\ ~psRet.ok
    /\ IsFlightProcessed(psState, IgcB)

\* C17 as claimed: a state file that holds a complete document holds a
\* complete document after every step, so that no load falls back to the
\* empty state
C17_AtomicSave ==
    [][ psFile.kind = "doc" => psFile'.kind = "doc" ]_vars

\* the identifiers that have a record in the document
Ids(doc) == {LoadMetadata(doc)[i].dsid : i \in 1..Len(LoadMetadata(doc))}

\* C18 as claimed: no step of add_flight, validate_and_fix_metadata or
\* update-metadata removes an identifier from the metadata document
C18_NeverDeleted ==
    [][ \A id \in Flights : id \in Ids(mdDoc) => id \in Ids(mdDoc') ]_vars

\* C19: after add_flight(r), load_metadata holds r under r's dsid, holds one
\* record per dsid, and holds every record of another dsid that it held
\* before, unchanged
C19_AddFlightUpsert ==
    [][ mdRet'.op = "add_flight" =>
          LET before == LoadMetadata(mdDoc)
              after  == LoadMetadata(mdDoc')
              r      == mdRet'.rec
          IN /\ \E i \in 1..Len(after) : after[i] = r
             /\ \A i, j \in 1..Len(after) : after[i].dsid = after[j].dsid => i = j
             /\ \A i \in 1..Len(before) :
                    before[i].dsid # r.dsid =>
                        \E j \in 1..Len(after) : after[j] = before[i]
      ]_vars

\* C19 witness: the record of f1 was replaced in place, ahead of the record
\* of f2
C19_Witness ==
    /\ mdRet.op = "add_flight" /\ mdRet.rec.dsid = "f1"
    /\ Len(mdDoc.flights) = 2
    /\ mdDoc.flights[1] = mdRet.rec /\ mdDoc.flights[2].dsid = "f2"

\* the destination file exists and passes the downloader's validation
IsTrackLog(file) == file.exists /\ ValidIgc(file.line)

\* C20: validate_and_fix_metadata returns counts that add up to the number
\* of records, valid being the records whose file is a track log; afterwards
\* each record is "downloaded" if its file is a track log and "missing" if
\* the file is absent or invalid; a second call on the same files returns
\* the same counts and changes no status
C20_ValidateAndFix ==
    [][ mdRet'.op = "validate_and_fix_metadata" =>
          LET before == LoadMetadata(mdDoc)
              after  == LoadMetadata(mdDoc')
          IN /\ mdRet'.valid + mdRet'.missing = Len(before)
             /\ mdRet'.valid =
                    Cardinality({i \in 1..Len(before) : IsTrackLog(disk[before[i].dsid])})
             /\ Len(after) = Len(before)
             /\ \A i \in 1..Len(after) :
                    /\ after[i].dsid = before[i].dsid
                    /\ after[i].download_status =
                          IF IsTrackLog(disk[after[i].dsid]) THEN "downloaded"
                                                             ELSE "missing"
             /\ mdRet.op = "validate_and_fix_metadata" =>
                    ( /\ mdRet'.valid = mdRet.valid
                      /\ mdRet'.missing = mdRet.missing
                      /\ after = before )
      ]_vars

\* C20 witness: of two records, the one whose file is an arbitrary text was
\* set to "missing" and the one whose file is a track log was counted valid
C20_Witness ==
    /\ mdRet.op = "validate_and_fix_metadata"
    /\ mdRet.valid = 1 /\ mdRet.missing = 1
    /\ disk["f1"] = File(LineJunk) /\ disk["f2"] = File(LineIgcA)
    /\ \E i \in 1..Len(LoadMetadata(mdDoc)) :
          /\ LoadMetadata(mdDoc)[i].dsid = "f1"
          /\ LoadMetadata(mdDoc)[i].download_status = "missing"

\* C21: get_session raises AuthenticationError whenever no login of the
\* authenticator has succeeded so far, and refresh_session raises it, leaving
\* the authenticator as it was, whenever no credentials are stored
C21_AuthErrors ==
    [][/\ (oaRet'.op = "get_session" /\ ~oaLoggedIn) => oaRet'.raised
       /\ (oaRet'.op = "refresh_session" /\ NoCredentials(oa))
              => (oaRet'.raised /\ oa' = oa)]_vars

\* get_session has raised on an authenticator whose only login failed, so
\* that credentials are stored and no login has succeeded
C21_Witness ==
    /\ oaRet.op = "get_session"
    /\ oaRet.raised
    /\ ~NoCredentials(oa)
    /\ ~oaLoggedIn

\* the entries of the request log that are requests to the site
IsRequest(e) == e.ev \in {"pilot", "listing", "download"}

\* C22: every request of a run is sent on the session the authenticator
\* holds at that time: once refresh_session has replaced the session, neither
\* the DownloadManager nor the scraper uses the discarded one
C22_OneSession ==
    \A i \in 1..Len(rnLog) :
        IsRequest(rnLog[i]) => rnLog[i].sess = rnLog[i].cur

\* the run made a request for the year
Attempted(y) ==
    \E i \in 1..Len(rnLog) : IsRequest(rnLog[i]) /\ rnLog[i].year = y

\* every year whose listing yielded flights had its download_flights call
\* return
YieldedYearsDownloaded ==
    \A i \in 1..Len(rnLog) :
        (rnLog[i].ev = "listing" /\ rnLog[i].found > 0)
            => \E k \in (i + 1)..Len(rnLog) :
                   rnLog[k].ev = "returned" /\ rnLog[k].year = rnLog[i].year

RateLimited == \E i \in 1..Len(rnLog) : rnLog[i].ev = "rate_limit"

\* C23: in a run that logged in and met no rate limit, listing failures end
\* nothing: the command returns normally, every requested year was tried
\* and every year that yielded flights was downloaded, in both scopes and
\* with or without --year
C23_YearIsolation ==
    (rnPc = "done" /\ oaLoggedIn /\ ~RateLimited)
        => /\ rnExit = "ok"
           /\ \A y \in Elems(RequestedYears(rnYear)) : Attempted(y)
           /\ YieldedYearsDownloaded

\* C24: the years are listed in strictly descending order, a year is listed
\* only after the download of every earlier yielded year has returned, and
\* nothing is listed after a rate limit stopped the caller
C24_StreamingOrder ==
    \A i \in 1..Len(rnLog) : \A j \in (i + 1)..Len(rnLog) :
        /\ (rnLog[i].ev = "listing" /\ rnLog[j].ev = "listing")
               => rnLog[i].year > rnLog[j].year
        /\ (rnLog[i].ev = "listing" /\ rnLog[i].found > 0
            /\ rnLog[j].ev \in {"pilot", "listing"})
               => \E k \in (i + 1)..(j - 1) :
                      rnLog[k].ev = "returned" /\ rnLog[k].year = rnLog[i].year
        /\ rnLog[i].ev = "rate_limit" => ~IsRequest(rnLog[j])

\* an all-years run listed the first year, downloaded its flights, listed
\* the next year and was stopped there by the rate limit
C24_Witness ==
    /\ rnPc = "done"
    /\ rnYear = NoYear
    /\ RateLimited
    /\ \E i \in 1..Len(rnLog) : \E j \in (i + 1)..Len(rnLog) :
           /\ rnLog[i].ev = "listing" /\ rnLog[i].found > 0
           /\ rnLog[i].year = FirstYear
           /\ rnLog[j].ev = "listing" /\ rnLog[j].found > 0
           /\ rnLog[j].year = FirstYear - 1

\* C27: once the login has failed, the command is over with click.Abort and
\* has made no listing, detail-page or download request
C27_LoginFailureTerminal ==
    (rnPc # "start" /\ ~oaLoggedIn)
        => (rnPc = "done" /\ rnExit = "abort" /\ rnLog = <<>>)

\* the login of the command has raised AuthenticationError
C27_Witness ==
    /\ rnPc = "done"
    /\ oaRet.op = "login"
    /\ oaRet.raised
    /\ ~oa.authenticated
    /\ rnExit = "abort"

\* C28: every run that logged in ends with the statistics summary printed
C28_RunEndsWithSummary ==
    (rnPc = "done" /\ oaLoggedIn) => rnSummary

\* the lister scraped, or tried to scrape, a year
IsScrape(e) == e.ev \in {"pilot", "listing"}

\* C32: between the scrapes of two different years the lister has waited,
\* whether the earlier year yielded flights, yielded none or failed.
C32_InterYearDelay ==
    \A i \in 1..Len(rnLog) : \A j \in (i + 1)..Len(rnLog) :
        (IsScrape(rnLog[i]) /\ IsScrape(rnLog[j])
         /\ rnLog[i].year # rnLog[j].year)
            => \E k \in (i + 1)..(j - 1) : rnLog[k].ev = "sleep"

(***************************************************************************)
(* Properties of the spiders (SpecSpider)                                  *)
(***************************************************************************)

\* C25: when a minimum score is given, a detail-page request is issued for
\* a listing row only if the row's score is present and at least the
\* minimum: a row with 499.9 points never triggers one under a minimum of
\* 500.
C25_MinScoreBeforeResolution ==
    spMin # NoPoints =>
        \A r \in spInfo : r.points # NoPoints /\ r.points >= spMin

\* is a listing request waiting in the scheduler
ListingPending == \E req \in spPending : req.kind = "list"

\* C26: the first listing request is at offset 0, every further one is at
\* an offset strictly greater than the one before with a limit of at most
\* 50, and a further request is issued exactly while the next offset is
\* below the total the response reports.
C26_PaginationProtocol ==
    spKind = "airport" =>
        /\ \A req \in spPending :
              req.kind = "list" /\ spList = <<>> => req.offset = 0
        /\ spList # <<>> => spList[1].offset = 0
        /\ \A i \in 2..Len(spList) :
              /\ spList[i].offset > spList[i - 1].offset
              /\ spList[i].limit \in 1..BatchLimit
        /\ \A i \in 1..Len(spList) :
              (i < Len(spList) \/ ListingPending)
                 <=> spList[i].offset + spList[i].rows < spList[i].total
        /\ \A req \in spPending :
              req.kind = "list" /\ spList # <<>> =>
                 /\ req.offset > spList[Len(spList)].offset
                 /\ req.limit \in 1..BatchLimit

\* C29: a descriptor is emitted only from the detail page of a listed row,
\* and only for a track-log link of that page, never for a KML link.
C29_TwoStepResolution ==
    \A it \in spItems :
        /\ it.via = "detail"
        /\ it.link = "igc"
        /\ \E r \in spInfo : r.dsid = it.dsid

\* C30: a flight with a valid file in the directory of the year is in the
\* seen-set built at spider start, and no detail-page request is issued for
\* it.
C30_SeenSetGating ==
    spKind = "airport" /\ spPc # "init" =>
        \A f \in Flights :
            FileIsValid(disk[f]) =>
                /\ Dsid(f) \in spSeen
                /\ ~\E r \in spInfo : r.dsid = Dsid(f)

(***************************************************************************)
(* Properties of a crawl against a fixed total (SpecPaging)                *)
(***************************************************************************)

Keys(m) == {m[i].dsid : i \in 1..Len(m)}

\* both add_flight calls loaded the document before either saved: neither
\* loaded dict holds the other's record
BothLoadedFirst ==
    /\ \A w \in Writers : mwPc[w] # "idle"
    /\ \A w, v \in Writers :
          w # v => mwRec[v].dsid \notin Keys(mwMem[w])

\* both instances loaded the state file before either saved: neither state
\* holds the flight the other marks
BothConstructedFirst ==
    /\ \A w \in Writers : swPc[w] \in {"marked", "done"}
    /\ \A w, v \in Writers :
          w # v => ~IsFlightProcessed(swState[w], swName[v])

\* C33: when the add_flight calls of two runs both load before either
\* saves, the document holds at most one of their two records once both
\* have saved; and when two ProcessingState instances both load before
\* either saves, the state file holds at most one of the two flights they
\* marked once both have saved.
C33_LastWriterWins ==
    /\ (BothLoadedFirst /\ \A w \in Writers : mwPc[w] = "done")
          => \E w \in Writers : mwRec[w].dsid \notin Keys(LoadMetadata(mdDoc))
    /\ (BothConstructedFirst /\ \A w \in Writers : swPc[w] = "done")
          => \E w \in Writers :
                 ~IsFlightProcessed(LoadState(psFile), swName[w])

\* both runs have saved a record of their own flight and marked a flight of
\* their own, each having loaded before the other saved, and both saves of
\* the state file succeeded
C33_Witness ==
    /\ BothLoadedFirst
    /\ BothConstructedFirst
    /\ \A w \in Writers : mwPc[w] = "done" /\ swPc[w] = "done"
    /\ \E w \in Writers : mwRec[w].dsid \in Keys(LoadMetadata(mdDoc))
    /\ \E w \in Writers : IsFlightProcessed(LoadState(psFile), swName[w])

(***************************************************************************)
(* Properties of the pipeline (Spec), continued                            *)
(***************************************************************************)

\* flights of the year that download_flights has dealt with
Counted == stats.downloaded + stats.skipped + stats.failed

\* C34: in a call of download_flights that is no dry run every flight dealt
\* with has raised exactly one of downloaded, skipped and failed, and when
\* the call returns normally total = downloaded + skipped + failed = the
\* number of flights given.
C34_StatsAccounting ==
    /\ (pc \in {"flight", "attempt", "handle"} /\ ~dry_run)
          => /\ Counted = fi - 1
             /\ stats.total = Len(CurFlights)
    /\ (pc = "returned" /\ ~dry_run)
          => /\ stats.total = Counted
             /\ stats.total = Len(CurFlights)

\* a call returned with a downloaded, a skipped and a failed flight
C34_Witness ==
    /\ pc = "returned"
    /\ ~dry_run
    /\ stats.downloaded > 0
    /\ stats.failed > 0
    /\ stats.total = 2

\* _download_file is running for the current flight
InDownloadFile == pc \in {"attempt", "handle"}

\* C35: whenever _download_file ends, by returning, by exhausted retries, by
\* a client error or by the rate limit, the destination file is absent or
\* passes _validate_igc_file, and it is there exactly when the call returned
\* without raising (which is when the flight is counted as downloaded).
C35_NoInvalidArtifact ==
    [][ (InDownloadFile /\ ~InDownloadFile') =>
           /\ disk'[CurFlight].exists => ValidIgc(disk'[CurFlight].line)
           /\ disk'[CurFlight].exists
                 <=> stats'.downloaded = stats.downloaded + 1
      ]_vars

\* a year's call has gone through a file that was rejected after it had
\* been written and failed in the end, and a file that was downloaded
C35_Witness ==
    /\ pc = "flight"
    /\ fi = 3
    /\ stats.failed = 1
    /\ stats.downloaded = 1
    /\ \E f \in Flights : f \in Elems(CurFlights) /\ disk[f] = NoFile
    /\ \E f \in Flights : f \in Elems(CurFlights) /\ ValidIgc(disk[f].line)

\* C36: under force a valid destination file is only ever replaced by
\* another valid file: no step of a re-download, failed or not, leaves the
\* flight's file absent or invalid where a valid one was.
C36_ForceKeepsValidFile ==
    [][ \A f \in Flights :
           (force /\ disk[f].exists /\ ValidIgc(disk[f].line))
              => (disk'[f].exists /\ ValidIgc(disk'[f].line))
      ]_vars

\* C37: when a login or refresh_session call returns, is_authenticated is
\* true, and get_session succeeds, exactly if that attempt succeeded; the
\* calls that follow it until the next attempt do not change the object, so
\* this is the most recent attempt at every later point.
C37_AuthenticatedIffLastAttempt ==
    [][ oaRet'.op \in {"login", "refresh_session"}
           => /\ IsAuthenticated(oa') <=> ~oaRet'.raised
              /\ ~AuthGetSession(oa').raised <=> ~oaRet'.raised
      ]_vars

\* C38: every file name in processed_flights is in the flight list of the
\* date recorded for it, and every file name in some date's flight list is
\* in processed_flights
C38_LedgerConsistent ==
    /\ \A f \in StateFiles :
          IsFlightProcessed(psState, f)
             => /\ psState.processed_flights[f] \in Dates
                /\ psState.processed_flights[f] \in DatesListing(psState, f)
    /\ \A f \in StateFiles :
          DatesListing(psState, f) # {} => IsFlightProcessed(psState, f)

\* a file name marked under two dates, the first of them also marked as a
\* date, and a second file name recorded
C38_Witness ==
    /\ psAlive
    /\ \E f \in StateFiles : Cardinality(DatesListing(psState, f)) = 2
    /\ \A f \in StateFiles : IsFlightProcessed(psState, f)
    /\ \E d \in Dates : IsDateProcessed(psState, d)
    /\ C38_LedgerConsistent

\* metadata.json of the year as the spider of the next run reads it: one
\* record for every flight of the year's listing that add_flight stored
YearDoc(m, flights) ==
    LET ids == SelectSeq(flights, LAMBDA f : m[Dsid(f)] # "none")
    IN IF ids = <<>> THEN NoDoc
       ELSE SaveMetadata([i \in 1..Len(ids) |-> RowRecord(Dsid(ids[i]))])

\* C39: a destination file that download_flights keeps and counts as skipped
\* is one that validate_and_fix_metadata calls "downloaded" and whose dsid
\* the airport spider's seen-set holds
C39_ValidityChecksAgree ==
    [][ (pc = "flight" /\ stats'.skipped = stats.skipped + 1)
           => /\ disk'[CurFlight].exists
              /\ FixedStatus(disk'[CurFlight]) = "downloaded"
              /\ Dsid(CurFlight)
                    \in LoadExistingMetadata(YearDoc(meta', CurFlights), disk')
      ]_vars

\* the flights of the years the lister yielded before the y-th
RECURSIVE FlightsBefore(_)
FlightsBefore(y) ==
    IF y <= 1 THEN 0 ELSE FlightsBefore(y - 1) + Len(listing[Years[y - 1]])

\* the flights add_flight recorded in this run
Recorded == {f \in Flights : meta[Dsid(f)] = "downloaded"}

\* every recorded flight has its valid file on disk
RecordedFilesKept ==
    \A f \in Recorded : disk[f].exists /\ ValidIgc(disk[f].line)

\* C40: when the run reaches its summary after a rate-limit abort, the
\* accumulated statistics count every file processed before the abort, those
\* of the year in which the limit was hit included, and every file downloaded
\* before the abort is on disk with its metadata record
C40_AbortKeepsPartialResults ==
    (run = 1 /\ rateLimited /\ pc = "summary")
       => /\ total_stats.downloaded + total_stats.skipped + total_stats.failed
                = FlightsBefore(yi) + (fi - 1)
          /\ total_stats.downloaded = Cardinality(Recorded)
          /\ RecordedFilesKept

====
